---- MODULE Spec2Model ----
(***************************************************************************)
(* Model of garmer: the session/auth manager (garmer/auth.py), the         *)
(* extractor base class and its per-domain subclasses                      *)
(* (garmer/extractors), and the facade client (garmer/client.py).          *)
(*                                                                         *)
(* The garth library, the vendor and the file system are the environment:  *)
(* every call into them draws its outcome from a small set.                *)
(***************************************************************************)
EXTENDS Integers, Sequences, FiniteSets, TLC

\* ------------------------------------------------------------------------
\* Bounds of the model
\* ------------------------------------------------------------------------
\* greatest number of days a date range spans
MaxSpan == 3
\* greatest number of days export_data is asked to export
MaxExportSpan == 2
\* greatest number of entities an aggregate helper is given
MaxEntities == 2

\* the Garmin accounts of the model
Accounts == {"alice", "bob"}

\* ------------------------------------------------------------------------
\* Exceptions
\* ------------------------------------------------------------------------
NoExc == "none"

\* the base class of every exception class the code names
ExcParent ==
    [AuthenticationError |-> "Exception",
     SessionExpiredError |-> "AuthenticationError",
     GarthException      |-> "Exception",
     GarthHTTPError      |-> "GarthException",
     ConnectionError     |-> "Exception",
     OSError             |-> "Exception",
     AttributeError      |-> "Exception",
     Exception           |-> "BaseException"]

RECURSIVE IsSubclass(_, _)
\* issubclass(c, base)
IsSubclass(c, base) ==
    IF c = base THEN TRUE
    ELSE IF c \in DOMAIN ExcParent THEN IsSubclass(ExcParent[c], base)
    ELSE FALSE

\* ------------------------------------------------------------------------
\* State
\* ------------------------------------------------------------------------
VARIABLES
    is_authenticated,   \* GarminAuth._is_authenticated
    token_file,         \* what is at GarminAuth.token_path
    garth_account,      \* the account garth's global client holds tokens of
    sleep_username,     \* SleepExtractor._username
    pc,                 \* the call in progress: "idle" when none is
    rng,                \* the frame of get_for_date_range
    snap,               \* the frame of get_health_snapshot
    exp,                \* the frame of export_data
    rep,                \* the frame of get_weekly_health_report
    fn,                 \* the normalizer or aggregate applied last, with its input
    last                \* the operation that finished last, and its outcome

\* what can be at token_path: nothing, tokens of an account, or something
\* garth.resume cannot load
TokenFileStates == {"absent", "corrupt"} \cup Accounts

\* the mutable world the auth manager acts on, as a value
World == [auth |-> is_authenticated, file |-> token_file, garth |-> garth_account]

\* the record of an operation's outcome
\*   ret    what it returned ("-" when it raised)
\*   exc    the class of the exception it raised (NoExc when it returned)
\*   cause  the class of the exception's __cause__
\*   loads  the number of load_tokens calls it made
\*   vendor the number of requests it sent to the vendor
Outcome(w, ret, exc, cause, loads, vendor) ==
    [w |-> w, ret |-> ret, exc |-> exc, cause |-> cause,
     loads |-> loads, vendor |-> vendor]

\* ------------------------------------------------------------------------
\* GarminAuth
\* ------------------------------------------------------------------------
WriteOutcomes == {"ok", "mkdir_fails", "write_fails"}

\* garth.save of a client that holds no tokens writes no token file, it only
\* creates the directory
GarthSave(w) ==
    IF w.garth \in Accounts THEN [w EXCEPT !.file = w.garth]
    ELSE IF w.file = "absent" THEN [w EXCEPT !.file = "corrupt"]
    ELSE w

\* the exception a failing token write raises inside save_tokens
WriteExc(wr) == IF wr = "ok" THEN NoExc ELSE "OSError"

\* save_tokens without its try/except: a failing write raises
save_tokens_unguarded(w, wr) ==
    IF WriteExc(wr) = NoExc
    THEN Outcome(GarthSave(w), "None", NoExc, NoExc, 0, 0)
    ELSE Outcome(w, "-", WriteExc(wr), NoExc, 0, 0)

save_tokens(w, wr) ==
    IF WriteExc(wr) = NoExc
    THEN Outcome(GarthSave(w), "None", NoExc, NoExc, 0, 0)
    ELSE IF IsSubclass(WriteExc(wr), "Exception")
         THEN Outcome(w, "None", NoExc, NoExc, 0, 0)
    ELSE Outcome(w, "-", WriteExc(wr), NoExc, 0, 0)

LoginOutcomes == {"ok", "GarthHTTPError", "GarthException", "ConnectionError"}

\* the body of the try block of login: exc is the exception that leaves it
LoginTry(w, acct, lo, save, wr) ==
    IF lo # "ok"
    THEN Outcome(w, "-", lo, NoExc, 0, 1)
    ELSE LET w1 == [w EXCEPT !.auth = TRUE, !.garth = acct]
             s == IF save THEN save_tokens(w1, wr)
                  ELSE Outcome(w1, "None", NoExc, NoExc, 0, 0)
         IN  IF s.exc # NoExc
             THEN Outcome(s.w, "-", s.exc, NoExc, 0, 1)
             ELSE Outcome(s.w, "True", NoExc, NoExc, 0, 1)

\* login without its last clause, except Exception
login_no_catch_all(w, acct, lo, save, wr) ==
    LET b == LoginTry(w, acct, lo, save, wr)
    IN  IF b.exc = NoExc THEN b
        ELSE IF IsSubclass(b.exc, "GarthHTTPError")
             THEN Outcome(b.w, "-", "AuthenticationError", b.exc, 0, 1)
        ELSE IF IsSubclass(b.exc, "GarthException")
             THEN Outcome(b.w, "-", "AuthenticationError", b.exc, 0, 1)
        ELSE b

login(w, acct, lo, save, wr) ==
    LET b == LoginTry(w, acct, lo, save, wr)
    IN  IF b.exc = NoExc THEN b
        ELSE IF IsSubclass(b.exc, "GarthHTTPError")
             THEN Outcome(b.w, "-", "AuthenticationError", b.exc, 0, 1)
        ELSE IF IsSubclass(b.exc, "GarthException")
             THEN Outcome(b.w, "-", "AuthenticationError", b.exc, 0, 1)
        ELSE IF IsSubclass(b.exc, "Exception")
             THEN Outcome(b.w, "-", "AuthenticationError", b.exc, 0, 1)
        ELSE b

\* the exception garth.resume raises on a token file it cannot load
ResumeErrors == {"GarthException", "Exception"}

\* load_tokens without its last clause, except Exception
load_tokens_garth_only(w, rexc) ==
    IF w.file = "absent"
    THEN Outcome(w, "False", NoExc, NoExc, 1, 0)
    ELSE IF w.file \in Accounts
         THEN Outcome([w EXCEPT !.auth = TRUE, !.garth = w.file],
                      "True", NoExc, NoExc, 1, 0)
    ELSE IF IsSubclass(rexc, "GarthException")
         THEN Outcome(w, "False", NoExc, NoExc, 1, 0)
    ELSE Outcome(w, "-", rexc, NoExc, 1, 0)

load_tokens(w, rexc) ==
    IF w.file = "absent"
    THEN Outcome(w, "False", NoExc, NoExc, 1, 0)
    ELSE IF w.file \in Accounts
         THEN Outcome([w EXCEPT !.auth = TRUE, !.garth = w.file],
                      "True", NoExc, NoExc, 1, 0)
    ELSE IF IsSubclass(rexc, "GarthException")
         THEN Outcome(w, "False", NoExc, NoExc, 1, 0)
    ELSE IF IsSubclass(rexc, "Exception")
         THEN Outcome(w, "False", NoExc, NoExc, 1, 0)
    ELSE Outcome(w, "-", rexc, NoExc, 1, 0)

DeleteOutcomes == {"ok", "unlink_fails"}

\* logout without its first statement: the session flag is left as it is
logout_keeps_session(w, delete_tokens, del) ==
    IF delete_tokens /\ w.file # "absent" /\ del = "ok"
    THEN Outcome([w EXCEPT !.file = "absent"], "None", NoExc, NoExc, 0, 0)
    ELSE Outcome(w, "None", NoExc, NoExc, 0, 0)

logout(w, delete_tokens, del) ==
    LET w1 == [w EXCEPT !.auth = FALSE]
    IN  IF delete_tokens /\ w1.file # "absent" /\ del = "ok"
        THEN Outcome([w1 EXCEPT !.file = "absent"], "None", NoExc, NoExc, 0, 0)
        ELSE Outcome(w1, "None", NoExc, NoExc, 0, 0)

\* ensure_authenticated without its early return: it always loads the tokens
ensure_authenticated_always_loads(w, rexc) ==
    LET l == load_tokens(w, rexc)
    IN  IF l.exc # NoExc THEN l
        ELSE IF l.ret = "True" \/ w.auth
             THEN Outcome(l.w, "None", NoExc, NoExc, l.loads, 0)
        ELSE Outcome(l.w, "-", "AuthenticationError", NoExc, l.loads, 0)

ensure_authenticated(w, rexc) ==
    IF w.auth
    THEN Outcome(w, "None", NoExc, NoExc, 0, 0)
    ELSE LET l == load_tokens(w, rexc)
         IN  IF l.exc # NoExc THEN l
             ELSE IF l.ret = "True"
                  THEN Outcome(l.w, "None", NoExc, NoExc, l.loads, 0)
             ELSE Outcome(l.w, "-", "AuthenticationError", NoExc, l.loads, 0)

\* refresh_if_needed marking the session authenticated once it is refreshed
refresh_if_needed_marks(w, wr) ==
    LET s == IF w.auth THEN save_tokens(w, wr) ELSE Outcome(w, "None", NoExc, NoExc, 0, 0)
    IN  IF s.exc = NoExc
        THEN Outcome([s.w EXCEPT !.auth = TRUE], "True", NoExc, NoExc, 0, 0)
        ELSE IF IsSubclass(s.exc, "GarthException")
             THEN Outcome([s.w EXCEPT !.auth = FALSE], "False", NoExc, NoExc, 0, 0)
        ELSE s

refresh_if_needed(w, wr) ==
    LET s == IF w.auth THEN save_tokens(w, wr) ELSE Outcome(w, "None", NoExc, NoExc, 0, 0)
    IN  IF s.exc = NoExc
        THEN Outcome(s.w, "True", NoExc, NoExc, 0, 0)
        ELSE IF IsSubclass(s.exc, "GarthException")
             THEN Outcome([s.w EXCEPT !.auth = FALSE], "False", NoExc, NoExc, 0, 0)
        ELSE s

\* What the vendor can answer to a request: a response ("data": a well-formed
\* non-empty body, "empty": a falsy body, "malformed": a non-empty body no
\* normalizer can use), or an error garth raises.
FetchAnswers == {"data", "empty", "malformed", "http401", "http500"}
RequestAnswers == FetchAnswers \cup {"garth_error", "connection_error"}

\* the class of the exception garth raises for an answer
AnswerExc(va) ==
    CASE va \in {"http401", "http500"} -> "GarthHTTPError"
      [] va = "garth_error" -> "GarthException"
      [] va = "connection_error" -> "ConnectionError"
      [] OTHER -> NoExc

\* e.status of the GarthHTTPError
AnswerStatus(va) ==
    CASE va = "http401" -> 401
      [] va = "http500" -> 500
      [] OTHER -> 0

\* request without the test of e.status: every GarthHTTPError is an expiry
request_any_http_error(w, va, rexc) ==
    LET e == ensure_authenticated(w, rexc)
    IN  IF e.exc # NoExc THEN e
        ELSE IF AnswerExc(va) = NoExc
             THEN Outcome(e.w, "response", NoExc, NoExc, e.loads, 1)
        ELSE IF IsSubclass(AnswerExc(va), "GarthHTTPError")
             THEN Outcome([e.w EXCEPT !.auth = FALSE], "-",
                          "SessionExpiredError", AnswerExc(va), e.loads, 1)
        ELSE Outcome(e.w, "-", AnswerExc(va), NoExc, e.loads, 1)

request(w, va, rexc) ==
    LET e == ensure_authenticated(w, rexc)
    IN  IF e.exc # NoExc THEN e
        ELSE IF AnswerExc(va) = NoExc
             THEN Outcome(e.w, "response", NoExc, NoExc, e.loads, 1)
        ELSE IF IsSubclass(AnswerExc(va), "GarthHTTPError")
             THEN IF AnswerStatus(va) = 401
                  THEN Outcome([e.w EXCEPT !.auth = FALSE], "-",
                               "SessionExpiredError", AnswerExc(va), e.loads, 1)
                  ELSE Outcome(e.w, "-", AnswerExc(va), NoExc, e.loads, 1)
        ELSE Outcome(e.w, "-", AnswerExc(va), NoExc, e.loads, 1)

\* ------------------------------------------------------------------------
\* Calendar dates (datetime.date)
\* ------------------------------------------------------------------------
\* the first date of the model: 2024-02-28, so that ranges cross the leap day
\* and the end of the month
Epoch == [y |-> 2024, m |-> 2, d |-> 28]

IsLeap(y) == (y % 4 = 0) /\ ((y % 100 # 0) \/ (y % 400 = 0))

DaysInMonth(y, m) ==
    IF m = 2 THEN (IF IsLeap(y) THEN 29 ELSE 28)
    ELSE IF m \in {4, 6, 9, 11} THEN 30 ELSE 31

\* date + timedelta(days=1)
AddDay(dt) ==
    IF dt.d < DaysInMonth(dt.y, dt.m) THEN [dt EXCEPT !.d = dt.d + 1]
    ELSE IF dt.m < 12 THEN [dt EXCEPT !.m = dt.m + 1, !.d = 1]
    ELSE [y |-> dt.y + 1, m |-> 1, d |-> 1]

RECURSIVE AddDays(_, _)
\* date + timedelta(days=n), n >= 0
AddDays(dt, n) == IF n = 0 THEN dt ELSE AddDays(AddDay(dt), n - 1)

\* date - timedelta(days=1)
SubDay(dt) ==
    IF dt.d > 1 THEN [dt EXCEPT !.d = dt.d - 1]
    ELSE IF dt.m > 1 THEN [dt EXCEPT !.m = dt.m - 1, !.d = DaysInMonth(dt.y, dt.m - 1)]
    ELSE [y |-> dt.y - 1, m |-> 12, d |-> 31]

RECURSIVE SubDays(_, _)
\* date - timedelta(days=n), n >= 0
SubDays(dt, n) == IF n = 0 THEN dt ELSE SubDays(SubDay(dt), n - 1)

\* a <= b on dates
DateLE(a, b) ==
    \/ a.y < b.y
    \/ a.y = b.y /\ a.m < b.m
    \/ a.y = b.y /\ a.m = b.m /\ a.d <= b.d

RECURSIVE DaysBeforeMonth(_, _)
\* the number of days of year y before the first of month m
DaysBeforeMonth(y, m) ==
    IF m = 1 THEN 0 ELSE DaysBeforeMonth(y, m - 1) + DaysInMonth(y, m - 1)

\* the day of the year of a date (1 for January 1st)
DayOfYear(dt) == DaysBeforeMonth(dt.y, dt.m) + dt.d

\* _date_range_iterator stopping before the end date
_date_range_iterator_exclusive(current, end_date) ==
    DateLE(current, end_date) /\ current # end_date

\* BaseExtractor._date_range_iterator: whether it yields current
_date_range_iterator(current, end_date) == DateLE(current, end_date)

\* the "YYYY-MM-DD" string of a date, as its three numbers
isoformat(dt) == <<dt.y, dt.m, dt.d>>

\* a date argument is a date object or a "YYYY-MM-DD" string
ArgTypes == {"date", "str"}

DateArg(t, dt) == IF t = "str" THEN isoformat(dt) ELSE dt

_format_date(t, v) == IF t = "str" THEN v ELSE isoformat(v)

_parse_date(date_str) == [y |-> date_str[1], m |-> date_str[2], d |-> date_str[3]]

\* ------------------------------------------------------------------------
\* Extractors
\* ------------------------------------------------------------------------
\* the extractors of a GarminClient that fetch one entity per date
Kinds == {"sleep", "daily"}

NoEntity == [kind |-> "-", date |-> <<>>]

\* the entity a normalizer builds from the vendor's data of one date
Entity(kind, date_str) == [kind |-> kind, date |-> date_str]

\* the outcome of an extractor call: as Outcome, with the extractor's
\* _username and the entity returned
XOutcome(w, un, ret, entity, exc, loads, vendor) ==
    [w |-> w, un |-> un, ret |-> ret, entity |-> entity, exc |-> exc,
     loads |-> loads, vendor |-> vendor]

\* BaseExtractor.username: the name is read off garth's client and cached
\* once _ensure_authenticated() has had outcome e
client_username(un, e) ==
    IF e.exc # NoExc
    THEN XOutcome(e.w, un, "-", NoEntity, e.exc, e.loads, 0)
    ELSE XOutcome(e.w, e.w.garth, e.w.garth, NoEntity, NoExc, e.loads, 0)

\* BaseExtractor.username
username(w, un, rexc) ==
    IF un = "unset"
    THEN client_username(un, ensure_authenticated(w, rexc))
    ELSE XOutcome(w, un, un, NoEntity, NoExc, 0, 0)

\* garth.connectapi, called by _make_request once _ensure_authenticated()
\* has had outcome e
connectapi(un, va, e) ==
    IF e.exc # NoExc
    THEN XOutcome(e.w, un, "-", NoEntity, e.exc, e.loads, 0)
    ELSE IF AnswerExc(va) # NoExc
         THEN XOutcome(e.w, un, "-", NoEntity, AnswerExc(va), e.loads, 1)
    ELSE XOutcome(e.w, un, va, NoEntity, NoExc, e.loads, 1)

\* BaseExtractor._make_request: ret is the response body
_make_request(w, un, va, rexc) == connectapi(un, va, ensure_authenticated(w, rexc))

\* <Entity>.from_garmin_response(response) of a non-empty response
from_garmin_response(kind, body, date_str) ==
    IF body = "data"
    THEN [exc |-> NoExc, entity |-> Entity(kind, date_str)]
    ELSE [exc |-> "AttributeError", entity |-> NoEntity]

\* outcome r of a call that followed n earlier load_tokens calls
AfterLoads(n, r) == [r EXCEPT !.loads = r.loads + n]

\* the request of get_for_date, the evaluation of its endpoint (self.username
\* for sleep) having had outcome u
RequestEndpoint(u, va, rexc) ==
    IF u.exc # NoExc THEN u
    ELSE AfterLoads(u.loads, _make_request(u.w, u.un, va, rexc))

\* the end of the try block of get_for_date, the request having had outcome r
ResponseToEntity(kind, date_str, r) ==
    IF r.exc # NoExc THEN r
    ELSE IF r.ret # "empty"
         THEN LET p == from_garmin_response(kind, r.ret, date_str)
              IN  IF p.exc # NoExc
                  THEN XOutcome(r.w, r.un, "-", NoEntity, p.exc, r.loads, r.vendor)
                  ELSE XOutcome(r.w, r.un, "entity", p.entity, NoExc, r.loads, r.vendor)
    ELSE XOutcome(r.w, r.un, "None", NoEntity, NoExc, r.loads, r.vendor)

\* the body of the try block of get_for_date
FetchForDate(kind, w, un, date_str, va, rexc) ==
    ResponseToEntity(kind, date_str,
        RequestEndpoint(IF kind = "sleep" THEN username(w, un, rexc)
                        ELSE XOutcome(w, un, un, NoEntity, NoExc, 0, 0),
                        va, rexc))

\* the exception classes get_for_date catches
GetForDateCatches == "Exception"

\* the except clause of a fetch method: an exception of a class in catches
\* that left the try block with outcome b is logged and none is returned
ExceptReturns(catches, none, b) ==
    IF b.exc # NoExc /\ IsSubclass(b.exc, catches)
    THEN XOutcome(b.w, b.un, none, NoEntity, NoExc, b.loads, b.vendor)
    ELSE b

\* <Extractor>.get_for_date(target_date)
get_for_date(kind, w, un, t, target_date, va, rexc) ==
    ExceptReturns(GetForDateCatches, "None",
        FetchForDate(kind, w, un, _format_date(t, target_date), va, rexc))

\* BodyExtractor.get_hydration_for_date(target_date)
get_hydration_for_date(w, un, t, target_date, va, rexc) ==
    ExceptReturns("Exception", "None",
        FetchForDate("hydration", w, un, _format_date(t, target_date), va, rexc))

\* BodyExtractor.get_respiration_for_date(target_date)
get_respiration_for_date(w, un, t, target_date, va, rexc) ==
    ExceptReturns("Exception", "None",
        FetchForDate("respiration", w, un, _format_date(t, target_date), va, rexc))

\* the end of the try block of get_activities, the request having had
\* outcome r: ret is the number of activities in the list
ResponseToActivities(r) ==
    IF r.exc # NoExc THEN r
    ELSE IF r.ret = "empty"
         THEN XOutcome(r.w, r.un, 0, NoEntity, NoExc, r.loads, r.vendor)
    ELSE IF from_garmin_response("activity", r.ret, <<>>).exc # NoExc
         THEN XOutcome(r.w, r.un, "-", NoEntity, "AttributeError", r.loads, r.vendor)
    ELSE XOutcome(r.w, r.un, 1, NoEntity, NoExc, r.loads, r.vendor)

\* ActivityExtractor.get_activities(start_date, end_date, limit): ret is the
\* number of activities in the returned list
get_activities(w, un, va, rexc) ==
    ExceptReturns("Exception", 0, ResponseToActivities(_make_request(w, un, va, rexc)))

\* ------------------------------------------------------------------------
\* The state machine
\* ------------------------------------------------------------------------
vars == <<is_authenticated, token_file, garth_account, sleep_username,
          pc, rng, snap, exp, rep, fn, last>>

\* the frames of the calls that are not in progress
NoRng ==
    [kind |-> "-", caller |-> "-", start |-> Epoch, end |-> Epoch,
     current |-> Epoch, results |-> <<>>, calls |-> <<>>, answers |-> <<>>,
     exc |-> NoExc]

\* the keys of the mapping get_health_snapshot returns, after "date", in the
\* order in which it fetches them
Domains == <<"daily_summary", "sleep", "heart_rate", "stress", "steps",
             "hydration", "respiration">>

DomainSet == {Domains[i] : i \in 1 .. Len(Domains)}

\* snap.i: the index in Domains of the domain fetched next, 0 when no call is
\* in progress; snap.answer: what the vendor answered to the fetch of the
\* domain before it ("nocall" when no request was sent)
NoSnap ==
    [date |-> Epoch, i |-> 0, result |-> [k \in DomainSet |-> "None"], exc |-> NoExc,
     answer |-> "-"]

\* exp.activities: the length of the exported list, -1 while the key is unset;
\* exp.sleep and exp.daily: the exported list, Unset while the key is unset;
\* exp.answer: what the vendor answered to the request for the activities
\* ("nocall" when no request was sent, "-" when none was attempted)
Unset == <<[kind |-> "unset", date |-> <<>>]>>

NoExp ==
    [t |-> "-", start |-> Epoch, end |-> Epoch, include_activities |-> FALSE,
     include_sleep |-> FALSE, include_daily |-> FALSE, stage |-> "-",
     activities |-> -1, sleep |-> Unset, daily_summaries |-> Unset, answer |-> "-"]

\* the sections of the mapping get_weekly_health_report returns, after
\* "period", in the order in which it computes them
Sections == <<"activities", "sleep", "steps", "heart_rate", "stress">>

SectionSet == {Sections[i] : i \in 1 .. Len(Sections)}

\* rep.i: the index in Sections of the section computed next, 0 when no call
\* is in progress; a section is "None", "summary" (of the activities),
\* "nodata" (the aggregate of no entity) or "stats" (the aggregate of the
\* days that had data); rep.answer: what the vendor answered to the request
\* for the activities
NoRep ==
    [today |-> Epoch, start |-> Epoch, i |-> 0,
     result |-> [k \in SectionSet |-> "None"], exc |-> NoExc, answer |-> "-"]

\* no normalizer or aggregate has been applied
NoFn == [op |-> "-", state |-> "-"]

\* the record kept of the call that finished last (ret = "running" while a
\* call is in progress)
\*   input  the answer of the environment to the call's request
\*   write  the outcome of the token write the call attempted ("-": none)
Last(op, input, write, o) ==
    [op |-> op, input |-> input, write |-> write, ret |-> o.ret, exc |-> o.exc,
     cause |-> o.cause, loads |-> o.loads, vendor |-> o.vendor]

Running(op) ==
    [op |-> op, input |-> "-", write |-> "-", ret |-> "running", exc |-> NoExc,
     cause |-> NoExc, loads |-> 0, vendor |-> 0]

SetWorld(w) ==
    /\ is_authenticated' = w.auth
    /\ token_file' = w.file
    /\ garth_account' = w.garth

\* a call on the auth manager finishes with outcome o
Finish(op, input, write, o) ==
    /\ SetWorld(o.w)
    /\ last' = Last(op, input, write, o)
    /\ rng' = NoRng /\ snap' = NoSnap /\ exp' = NoExp /\ rep' = NoRep
    /\ UNCHANGED <<sleep_username, pc, fn>>

Init ==
    /\ is_authenticated = FALSE
    /\ token_file \in TokenFileStates
    /\ garth_account = "none"
    /\ sleep_username = "unset"
    /\ pc = "idle"
    /\ rng = NoRng /\ snap = NoSnap /\ exp = NoExp /\ rep = NoRep
    /\ fn = NoFn
    /\ last = Running("__init__")

\* the exception garth.resume can raise on the token file as it is now
ResumeErrorsNow == IF token_file = "corrupt" THEN ResumeErrors ELSE {"GarthException"}

\* the outcomes a token write can have when the call attempts one
WriteOutcomesIf(attempted) == IF attempted THEN WriteOutcomes ELSE {"ok"}

Login ==
    /\ pc = "idle"
    /\ \E acct \in Accounts, lo \in LoginOutcomes, save \in BOOLEAN :
         \E wr \in WriteOutcomesIf(save /\ lo = "ok") :
            Finish("login", lo, IF save /\ lo = "ok" THEN wr ELSE "-",
                   login(World, acct, lo, save, wr))

SaveTokens ==
    /\ pc = "idle"
    /\ \E wr \in WriteOutcomes : Finish("save_tokens", "-", wr, save_tokens(World, wr))

LoadTokens ==
    /\ pc = "idle"
    /\ \E rexc \in ResumeErrorsNow : Finish("load_tokens", "-", "-", load_tokens(World, rexc))

Logout ==
    /\ pc = "idle"
    /\ \E delete_tokens \in BOOLEAN :
         \E del \in IF delete_tokens /\ token_file # "absent" THEN DeleteOutcomes ELSE {"ok"} :
            Finish("logout", "-",
                   IF delete_tokens /\ token_file # "absent" THEN del ELSE "-",
                   logout(World, delete_tokens, del))

EnsureAuthenticated ==
    /\ pc = "idle"
    /\ \E rexc \in ResumeErrorsNow :
        Finish("ensure_authenticated", "-", "-", ensure_authenticated(World, rexc))

RefreshIfNeeded ==
    /\ pc = "idle"
    /\ \E wr \in WriteOutcomesIf(is_authenticated) :
        Finish("refresh_if_needed", "-", IF is_authenticated THEN wr ELSE "-",
               refresh_if_needed(World, wr))

Request ==
    /\ pc = "idle"
    /\ \E va \in RequestAnswers, rexc \in ResumeErrorsNow :
        Finish("request", va, "-", request(World, va, rexc))

\* the date ranges a call can be given: start s and end e days after Epoch,
\* the end at most one day before the start
Starts == {0, 1}

RangeArgs ==
    {<<s, e>> \in Starts \X (0 .. MaxSpan) : e - s + 1 <= MaxSpan /\ e >= s - 1}

\* what the vendor answers inside a loop over dates or domains
LoopAnswers == {"data", "empty", "malformed", "http500"}

\* <Extractor>.get_for_date(target_date), called by the user
GetForDate ==
    /\ pc = "idle"
    /\ \E kind \in Kinds, t \in ArgTypes, va \in FetchAnswers, rexc \in ResumeErrorsNow :
        LET g == get_for_date(kind, World, sleep_username, t, DateArg(t, Epoch), va, rexc)
        IN  /\ SetWorld(g.w)
            /\ sleep_username' = g.un
            /\ last' = [Running("get_for_date") EXCEPT
                          !.input = IF g.vendor = 0 THEN "nocall" ELSE va,
                          !.ret = g.ret, !.exc = g.exc,
                          !.loads = g.loads, !.vendor = g.vendor]
            /\ rng' = [NoRng EXCEPT !.kind = kind,
                          !.results = IF g.ret = "entity" THEN <<g.entity>> ELSE <<>>]
            /\ snap' = NoSnap /\ exp' = NoExp /\ rep' = NoRep /\ UNCHANGED fn
            /\ UNCHANGED pc

\* get_for_date_range: the arguments are parsed and the loop is entered
RangeFrame(kind, caller, t, start_date, end_date) ==
    LET start == IF t = "str" THEN _parse_date(start_date) ELSE start_date
        end == IF t = "str" THEN _parse_date(end_date) ELSE end_date
    IN  [NoRng EXCEPT !.kind = kind, !.caller = caller, !.start = start,
                      !.end = end, !.current = start]

RangeCall ==
    /\ pc = "idle"
    /\ \E kind \in Kinds, t \in ArgTypes, a \in RangeArgs :
        /\ pc' = "range"
        /\ rng' = RangeFrame(kind, "user", t, DateArg(t, AddDays(Epoch, a[1])),
                             DateArg(t, AddDays(Epoch, a[2])))
        /\ last' = Running("get_for_date_range")
        /\ snap' = NoSnap /\ exp' = NoExp /\ rep' = NoRep /\ UNCHANGED fn
        /\ UNCHANGED <<is_authenticated, token_file, garth_account, sleep_username>>

\* the exception classes the loop of get_for_date_range catches
RangeCatches == "Exception"

\* the loop of get_for_date_range ending at the first date without data
RangeIteration_stops_on_absent(f, g, va) ==
    LET logged == IF f.caller = "user"
                  THEN [f EXCEPT !.calls = Append(f.calls, f.current),
                                 !.answers = Append(f.answers,
                                                    IF g.vendor = 0 THEN "nocall" ELSE va)]
                  ELSE f
    IN  IF g.exc # NoExc
        THEN IF IsSubclass(g.exc, RangeCatches)
             THEN [logged EXCEPT !.current = AddDay(f.current)]
             ELSE [logged EXCEPT !.exc = g.exc]
        ELSE IF g.ret = "entity"
             THEN [logged EXCEPT !.results = Append(f.results, g.entity),
                                 !.current = AddDay(f.current)]
        ELSE [logged EXCEPT !.current = AddDay(f.end)]

\* one iteration of the loop of get_for_date_range, get_for_date having had
\* outcome g on the answer va
RangeIteration(f, g, va) ==
    LET logged == IF f.caller = "user"
                  THEN [f EXCEPT !.calls = Append(f.calls, f.current),
                                 !.answers = Append(f.answers,
                                                    IF g.vendor = 0 THEN "nocall" ELSE va)]
                  ELSE f
    IN  IF g.exc # NoExc
        THEN IF IsSubclass(g.exc, RangeCatches)
             THEN [logged EXCEPT !.current = AddDay(f.current)]
             ELSE [logged EXCEPT !.exc = g.exc]
        ELSE IF g.ret = "entity"
             THEN [logged EXCEPT !.results = Append(f.results, g.entity),
                                 !.current = AddDay(f.current)]
        ELSE [logged EXCEPT !.current = AddDay(f.current)]

RangeStep ==
    /\ pc = "range"
    /\ rng.exc = NoExc
    /\ _date_range_iterator(rng.current, rng.end)
    /\ \E va \in LoopAnswers, rexc \in ResumeErrorsNow :
        LET g == get_for_date(rng.kind, World, sleep_username, "date",
                              rng.current, va, rexc)
        IN  /\ SetWorld(g.w)
            /\ sleep_username' = g.un
            /\ rng' = RangeIteration(rng, g, va)
            /\ UNCHANGED <<pc, snap, exp, rep, fn, last>>

RangeDone == rng.exc # NoExc \/ ~_date_range_iterator(rng.current, rng.end)

\* get_for_date_range returns to the user
RangeReturn ==
    /\ pc = "range"
    /\ rng.caller = "user"
    /\ RangeDone
    /\ pc' = "idle"
    /\ last' = [last EXCEPT !.ret = IF rng.exc = NoExc THEN "list" ELSE "-",
                            !.exc = rng.exc]
    /\ UNCHANGED <<is_authenticated, token_file, garth_account, sleep_username,
                   rng, snap, exp, rep, fn>>

\* the extractor method get_health_snapshot fetches a domain with
FetchDomain(domain, w, un, target_date, va, rexc) ==
    CASE domain = "daily_summary" -> get_for_date("daily", w, un, "date", target_date, va, rexc)
      [] domain = "sleep" -> get_for_date("sleep", w, un, "date", target_date, va, rexc)
      [] domain = "hydration" -> get_hydration_for_date(w, un, "date", target_date, va, rexc)
      [] domain = "respiration" -> get_respiration_for_date(w, un, "date", target_date, va, rexc)
      [] OTHER -> get_for_date(domain, w, un, "date", target_date, va, rexc)

SnapshotCall ==
    /\ pc = "idle"
    /\ \E s \in Starts :
        /\ pc' = "snapshot"
        /\ snap' = [NoSnap EXCEPT !.date = AddDays(Epoch, s), !.i = 1]
        /\ last' = Running("get_health_snapshot")
        /\ rng' = NoRng /\ exp' = NoExp /\ rep' = NoRep /\ UNCHANGED fn
        /\ UNCHANGED <<is_authenticated, token_file, garth_account, sleep_username>>

\* the exception classes each try block of get_health_snapshot catches
SnapshotCatches == "Exception"

\* a try block of get_health_snapshot that lets the failure of its domain end
\* the call
SnapshotBlock_failure_ends_call(f, g) ==
    IF g.exc # NoExc \/ g.ret # "entity"
    THEN [f EXCEPT !.exc = "Exception"]
    ELSE [f EXCEPT !.result[Domains[f.i]] = "entity", !.i = f.i + 1]

\* one try block of get_health_snapshot, the fetch having had outcome g
SnapshotBlock(f, g) ==
    IF g.exc # NoExc
    THEN IF IsSubclass(g.exc, SnapshotCatches)
         THEN [f EXCEPT !.i = f.i + 1]
         ELSE [f EXCEPT !.exc = g.exc]
    ELSE IF g.ret = "entity"
         THEN [f EXCEPT !.result[Domains[f.i]] = "entity", !.i = f.i + 1]
    ELSE [f EXCEPT !.i = f.i + 1]

SnapshotStep ==
    /\ pc = "snapshot"
    /\ snap.exc = NoExc
    /\ snap.i <= Len(Domains)
    /\ \E va \in LoopAnswers, rexc \in ResumeErrorsNow :
        /\ LET g == FetchDomain(Domains[snap.i], World, sleep_username,
                                snap.date, va, rexc)
           IN  /\ SetWorld(g.w)
               /\ sleep_username' = g.un
               /\ snap' = [SnapshotBlock(snap, g) EXCEPT
                              !.answer = IF g.vendor = 0 THEN "nocall" ELSE va]
        /\ UNCHANGED <<pc, rng, exp, rep, fn, last>>

SnapshotReturn ==
    /\ pc = "snapshot"
    /\ snap.exc # NoExc \/ snap.i > Len(Domains)
    /\ pc' = "idle"
    /\ last' = [last EXCEPT !.ret = IF snap.exc = NoExc THEN "dict" ELSE "-",
                            !.exc = snap.exc]
    /\ UNCHANGED <<is_authenticated, token_file, garth_account, sleep_username,
                   rng, snap, exp, rep, fn>>

\* the dates export_data can be given
ExportArgs == {<<0, e>> : e \in 0 .. MaxExportSpan - 1}

ExportCall ==
    /\ pc = "idle"
    /\ \E t \in ArgTypes, a \in ExportArgs, ia \in BOOLEAN, is \in BOOLEAN, id \in BOOLEAN :
        /\ pc' = "export"
        /\ exp' = [NoExp EXCEPT !.t = t, !.start = AddDays(Epoch, a[1]),
                                !.end = AddDays(Epoch, a[2]),
                                !.include_activities = ia, !.include_sleep = is,
                                !.include_daily = id, !.stage = "activities"]
        /\ last' = Running("export_data")
        /\ rng' = NoRng /\ snap' = NoSnap /\ rep' = NoRep /\ UNCHANGED fn
        /\ UNCHANGED <<is_authenticated, token_file, garth_account, sleep_username>>

\* the exception classes each try block of export_data catches
ExportCatches == "Exception"

\* export_data: the activities block
ExportActivities ==
    /\ pc = "export"
    /\ exp.stage = "activities"
    /\ \E va \in FetchAnswers, rexc \in ResumeErrorsNow :
        /\ IF exp.include_activities
           THEN LET g == get_activities(World, sleep_username, va, rexc)
                IN  /\ SetWorld(g.w)
                    /\ sleep_username' = g.un
                    /\ exp' = [(IF g.exc = NoExc
                                THEN [exp EXCEPT !.activities = g.ret, !.stage = "sleep"]
                                ELSE IF IsSubclass(g.exc, ExportCatches)
                                     THEN [exp EXCEPT !.activities = 0, !.stage = "sleep"]
                                ELSE [exp EXCEPT !.stage = g.exc])
                               EXCEPT !.answer = IF g.vendor = 0 THEN "nocall" ELSE va]
           ELSE /\ exp' = [exp EXCEPT !.stage = "sleep"]
                /\ UNCHANGED <<is_authenticated, token_file, garth_account, sleep_username>>
        /\ UNCHANGED <<pc, rng, snap, rep, fn, last>>

\* export_data: the sleep and the daily block call get_for_date_range
ExportRangeCall ==
    /\ pc = "export"
    /\ exp.stage \in {"sleep", "daily"}
    /\ IF (exp.stage = "sleep" /\ exp.include_sleep) \/ (exp.stage = "daily" /\ exp.include_daily)
       THEN /\ pc' = "range"
            /\ rng' = RangeFrame(exp.stage, "export_data", exp.t,
                                 DateArg(exp.t, exp.start), DateArg(exp.t, exp.end))
            /\ exp' = exp
       ELSE /\ exp' = [exp EXCEPT !.stage = IF exp.stage = "sleep" THEN "daily" ELSE "return"]
            /\ UNCHANGED <<pc, rng>>
    /\ UNCHANGED <<is_authenticated, token_file, garth_account, sleep_username, snap, rep, fn, last>>

\* the sleep or daily block of export_data setting its key only when the
\* range had entities
ExportRangeBlock_skips_empty(f, r) ==
    LET next == IF f.stage = "sleep" THEN "daily" ELSE "return"
    IN  IF r.exc # NoExc \/ r.results = <<>>
        THEN [f EXCEPT !.stage = next]
        ELSE IF f.stage = "sleep"
             THEN [f EXCEPT !.sleep = r.results, !.stage = next]
        ELSE [f EXCEPT !.daily_summaries = r.results, !.stage = next]

\* the sleep or daily block of export_data, get_for_date_range having ended
\* with frame r
ExportRangeBlock(f, r) ==
    LET list == IF r.exc = NoExc THEN r.results ELSE <<>>
        next == IF f.stage = "sleep" THEN "daily" ELSE "return"
    IN  IF r.exc # NoExc /\ ~IsSubclass(r.exc, ExportCatches)
        THEN [f EXCEPT !.stage = r.exc]
        ELSE IF f.stage = "sleep"
             THEN [f EXCEPT !.sleep = list, !.stage = next]
        ELSE [f EXCEPT !.daily_summaries = list, !.stage = next]

\* get_for_date_range returns to export_data
ExportRangeReturn ==
    /\ pc = "range"
    /\ rng.caller = "export_data"
    /\ RangeDone
    /\ pc' = "export"
    /\ exp' = ExportRangeBlock(exp, rng)
    /\ rng' = NoRng
    /\ UNCHANGED <<is_authenticated, token_file, garth_account, sleep_username, snap, rep, fn, last>>

ExportReturn ==
    /\ pc = "export"
    /\ exp.stage \notin {"activities", "sleep", "daily"}
    /\ pc' = "idle"
    /\ last' = [last EXCEPT !.ret = IF exp.stage = "return" THEN "dict" ELSE "-",
                            !.exc = IF exp.stage = "return" THEN NoExc ELSE exp.stage]
    /\ UNCHANGED <<is_authenticated, token_file, garth_account, sleep_username,
                   rng, snap, exp, rep, fn>>

\* date.today() when get_weekly_health_report is called: 2024-03-02, so that
\* the window crosses the leap day and the end of February
ReportDays == {AddDays(Epoch, 3)}

\* timedelta(days=6): the days between the start and the end of the window
ReportWindowDays == 6

\* a window starting a whole week before its end
ReportStart_week_before(end_date) == SubDays(end_date, ReportWindowDays + 1)

\* get_weekly_health_report: start_date
ReportStart(end_date) == SubDays(end_date, ReportWindowDays)

ReportCall ==
    /\ pc = "idle"
    /\ \E today \in ReportDays :
        /\ pc' = "report"
        /\ rep' = [NoRep EXCEPT !.today = today, !.start = ReportStart(today), !.i = 1]
        /\ last' = Running("get_weekly_health_report")
        /\ rng' = NoRng /\ snap' = NoSnap /\ exp' = NoExp
        /\ UNCHANGED <<is_authenticated, token_file, garth_account, sleep_username, fn>>

\* the exception classes each try block of get_weekly_health_report catches
ReportCatches == "Exception"

\* get_weekly_health_report: the activities block
ReportActivities ==
    /\ pc = "report"
    /\ rep.exc = NoExc
    /\ rep.i = 1
    /\ \E va \in FetchAnswers, rexc \in ResumeErrorsNow :
        LET g == get_activities(World, sleep_username, va, rexc)
        IN  /\ SetWorld(g.w)
            /\ sleep_username' = g.un
            /\ rep' = [(IF g.exc = NoExc
                        THEN IF g.ret # 0
                             THEN [rep EXCEPT !.result["activities"] = "summary", !.i = 2]
                             ELSE [rep EXCEPT !.i = 2]
                        ELSE IF IsSubclass(g.exc, ReportCatches)
                             THEN [rep EXCEPT !.i = 2]
                        ELSE [rep EXCEPT !.exc = g.exc])
                       EXCEPT !.answer = IF g.vendor = 0 THEN "nocall" ELSE va]
            /\ UNCHANGED <<pc, rng, snap, exp, fn, last>>

\* get_sleep_stats, get_steps_stats, get_heart_rate_stats, get_stress_stats of
\* the list get_for_date_range returned: the aggregate of no entity, or of
\* the entities of the days that had data
StatsOf(results) == IF results = <<>> THEN "nodata" ELSE "stats"

\* get_weekly_health_report: a stats block calls get_for_date_range through
\* the get_*_stats method of the extractor
ReportRangeCall ==
    /\ pc = "report"
    /\ rep.exc = NoExc
    /\ rep.i \in 2 .. Len(Sections)
    /\ pc' = "range"
    /\ rng' = RangeFrame(Sections[rep.i], "report", "date", rep.start, rep.today)
    /\ UNCHANGED <<is_authenticated, token_file, garth_account, sleep_username,
                   snap, exp, rep, fn, last>>

\* a stats block of get_weekly_health_report leaving its section unset when
\* no day of the window had data
ReportStatsBlock_skips_nodata(f, r) ==
    IF r.exc # NoExc \/ r.results = <<>>
    THEN [f EXCEPT !.i = f.i + 1]
    ELSE [f EXCEPT !.result[Sections[f.i]] = StatsOf(r.results), !.i = f.i + 1]

\* a stats block of get_weekly_health_report, get_for_date_range having
\* ended with frame r
ReportStatsBlock(f, r) ==
    IF r.exc # NoExc
    THEN IF IsSubclass(r.exc, ReportCatches)
         THEN [f EXCEPT !.i = f.i + 1]
         ELSE [f EXCEPT !.exc = r.exc]
    ELSE [f EXCEPT !.result[Sections[f.i]] = StatsOf(r.results), !.i = f.i + 1]

\* get_for_date_range returns to the get_*_stats method, and the method to
\* get_weekly_health_report
ReportRangeReturn ==
    /\ pc = "range"
    /\ rng.caller = "report"
    /\ RangeDone
    /\ pc' = "report"
    /\ rep' = ReportStatsBlock(rep, rng)
    /\ rng' = NoRng
    /\ UNCHANGED <<is_authenticated, token_file, garth_account, sleep_username,
                   snap, exp, fn, last>>

ReportReturn ==
    /\ pc = "report"
    /\ rep.exc # NoExc \/ rep.i > Len(Sections)
    /\ pc' = "idle"
    /\ last' = [last EXCEPT !.ret = IF rep.exc = NoExc THEN "dict" ELSE "-",
                            !.exc = rep.exc]
    /\ UNCHANGED <<is_authenticated, token_file, garth_account, sleep_username,
                   rng, snap, exp, rep, fn>>

\* What the name datetime is bound to in extractors/daily.py and
\* extractors/activities.py: the class datetime.datetime ("from datetime
\* import date, datetime"), not the module
ExtractorDatetime == "class"

\* the evaluation of datetime.timedelta: the class has no such attribute
TimedeltaLookup(binding) == IF binding = "module" THEN NoExc ELSE "AttributeError"

\* the week_start arguments of get_weekly_summary
WeekStarts == {"None", "date", "str"}

\* DailyExtractor.get_weekly_summary(week_start) and
\* ActivityExtractor.get_weekly_summary(week_start): both evaluate
\* datetime.timedelta(days=...) before they fetch anything, to find the
\* Monday of the week when week_start is None and to find the end of the week
get_weekly_summary(w, week_start) ==
    IF TimedeltaLookup(ExtractorDatetime) # NoExc
    THEN Outcome(w, "-", TimedeltaLookup(ExtractorDatetime), NoExc, 0, 0)
    ELSE Outcome(w, "dict", NoExc, NoExc, 0, 0)

\* the months get_monthly_summary is asked for
Months == {1, 2, 12}

\* DailyExtractor.get_monthly_summary(year, month): evaluates
\* datetime.timedelta(days=1) to find the last day of the month, before it
\* fetches anything
get_monthly_summary(w, month) ==
    IF TimedeltaLookup(ExtractorDatetime) # NoExc
    THEN Outcome(w, "-", TimedeltaLookup(ExtractorDatetime), NoExc, 0, 0)
    ELSE Outcome(w, "dict", NoExc, NoExc, 0, 0)

WeeklySummary ==
    /\ pc = "idle"
    /\ \E extractor \in {"daily", "activities"}, week_start \in WeekStarts :
        Finish("get_weekly_summary", week_start, extractor,
               get_weekly_summary(World, week_start))

MonthlySummary ==
    /\ pc = "idle"
    /\ \E month \in Months :
        Finish("get_monthly_summary", IF month = 12 THEN "december" ELSE "other", "-",
               get_monthly_summary(World, month))

\* the calendar summaries, called by a user who logs in and out
NextSummary ==
    \/ Login
    \/ Logout
    \/ WeeklySummary
    \/ MonthlySummary

SpecSummary == Init /\ [][NextSummary]_vars

\* the auth manager, called by the user
NextAuth ==
    \/ Login
    \/ SaveTokens
    \/ LoadTokens
    \/ Logout
    \/ EnsureAuthenticated
    \/ RefreshIfNeeded
    \/ Request

Spec == Init /\ [][NextAuth]_vars

\* the extractors, called by a user who logs in and out
NextExtractor ==
    \/ Login
    \/ Logout
    \/ GetForDate
    \/ RangeCall
    \/ RangeStep
    \/ RangeReturn

SpecExtractor == Init /\ [][NextExtractor]_vars

\* the facade client, called by a user who logs in and out
NextClient ==
    \/ Login
    \/ Logout
    \/ SnapshotCall
    \/ SnapshotStep
    \/ SnapshotReturn
    \/ ExportCall
    \/ ExportActivities
    \/ ExportRangeCall
    \/ RangeStep
    \/ ExportRangeReturn
    \/ ExportReturn

SpecClient == Init /\ [][NextClient]_vars

\* the weekly health report of the facade client
NextReport ==
    \/ Login
    \/ Logout
    \/ ReportCall
    \/ ReportActivities
    \/ ReportRangeCall
    \/ RangeStep
    \/ ReportRangeReturn
    \/ ReportReturn

SpecReport == Init /\ [][NextReport]_vars

\* ------------------------------------------------------------------------
\* The aggregate helpers get_*_stats
\* ------------------------------------------------------------------------
\* An entity as the aggregate helpers read it:
\*   v    its counter: total_sleep_seconds, total_steps, rest_stress_duration,
\*        weight_grams (an int, 0 when the vendor sent none)
\*   opt  its optional reading: overall_score, resting_heart_rate,
\*        avg_stress_level (<<>> is None)
Counters == {0, 12000}
Readings == {<<>>, <<0>>, <<60>>}
Measured == [v : Counters, opt : Readings]

\* the lists of at most n entities
ListsUpTo(n) == UNION {[1 .. k -> Measured] : k \in 0 .. n}

RECURSIVE SumOf(_)
\* sum(x for x in xs)
SumOf(xs) == IF xs = <<>> THEN 0 ELSE Head(xs) + SumOf(Tail(xs))

\* [e.v for e in entities]
CountersOf(entities) == [i \in 1 .. Len(entities) |-> entities[i].v]

IsTruthy(e) == e.opt # <<>> /\ e.opt[1] # 0

\* [e.opt for e in entities if e.opt]
ReadingsOf(entities) ==
    LET kept == SelectSeq(entities, IsTruthy)
    IN  [i \in 1 .. Len(kept) |-> kept[i].opt[1]]

\* a / b of Python as the fraction <<a, b>>; None is <<>>
Quotient(a, b) == <<a, b>>
None == <<>>
Zero == <<0, 1>>

\* the exception the divisions of a helper raise, dens being the divisors of
\* the divisions it evaluates
DivisionExc(dens) == IF 0 \in dens THEN "ZeroDivisionError" ELSE NoExc

\* the dict a helper returns: the key that counts the entities and its
\* value, a mean over all entities, a mean over the optional readings
StatsDict(key, count, mean, opt_mean, dens) ==
    [exc |-> DivisionExc(dens), key |-> key, count |-> count, mean |-> mean,
     opt_mean |-> opt_mean]

\* sum(xs) / len(xs) if xs else None
MeanOrNone(xs) == IF xs # <<>> THEN Quotient(SumOf(xs), Len(xs)) ELSE None

\* the divisors of MeanOrNone(xs)
MeanDivisors(xs) == IF xs # <<>> THEN {Len(xs)} ELSE {}

\* a helper without the early return of the zero-entity case and without the
\* guards of its divisions
get_day_stats_unguarded(entities) ==
    LET days == Len(entities)
        scores == ReadingsOf(entities)
    IN  StatsDict("days_with_data", days,
                  Quotient(SumOf(CountersOf(entities)), days * 3600),
                  Quotient(SumOf(scores), Len(scores)),
                  {days, Len(scores)})

\* get_sleep_stats, get_stress_stats: the mean of the counter in hours, the
\* mean of the optional reading
get_day_stats(entities) ==
    IF entities = <<>>
    THEN StatsDict("days_with_data", 0, Zero, None, {})
    ELSE LET days == Len(entities)
             scores == ReadingsOf(entities)
         IN  StatsDict("days_with_data", days,
                       IF days # 0 THEN Quotient(SumOf(CountersOf(entities)), days * 3600)
                       ELSE Zero,
                       MeanOrNone(scores),
                       (IF days # 0 THEN {days} ELSE {}) \cup MeanDivisors(scores))

\* get_steps_stats: the mean of the daily steps
get_steps_stats(entities) ==
    IF entities = <<>>
    THEN StatsDict("days_with_data", 0, Zero, None, {})
    ELSE LET days == Len(entities)
         IN  StatsDict("days_with_data", days,
                       IF days # 0 THEN Quotient(SumOf(CountersOf(entities)), days)
                       ELSE Zero,
                       None,
                       IF days # 0 THEN {days} ELSE {})

\* get_heart_rate_stats: the mean of the resting heart rates
get_heart_rate_stats(entities) ==
    IF entities = <<>>
    THEN StatsDict("days_with_data", 0, None, None, {})
    ELSE StatsDict("days_with_data", Len(entities), None,
                   MeanOrNone(ReadingsOf(entities)),
                   MeanDivisors(ReadingsOf(entities)))

\* get_weight_stats of the list get_weight_range returned: the mean weight
get_weight_stats(weights) ==
    IF weights = <<>>
    THEN StatsDict("measurements", 0, None, None, {})
    ELSE StatsDict("measurements", Len(weights),
                   Quotient(SumOf(CountersOf(weights)), Len(weights) * 1000),
                   None, {Len(weights)})

StatsHelpers ==
    {"get_sleep_stats", "get_steps_stats", "get_stress_stats", "get_heart_rate_stats",
     "get_weight_stats"}

\* the helper applied to the list its range call returned
ApplyHelper(helper, entities) ==
    CASE helper \in {"get_sleep_stats", "get_stress_stats"} -> get_day_stats(entities)
      [] helper = "get_steps_stats" -> get_steps_stats(entities)
      [] helper = "get_heart_rate_stats" -> get_heart_rate_stats(entities)
      [] helper = "get_weight_stats" -> get_weight_stats(entities)

\* a helper is about to be applied to a list of entities
StatsInput(helper, entities) ==
    [op |-> helper, state |-> "called", input |-> entities,
     out |-> StatsDict("-", 0, None, None, {})]

InitStats ==
    /\ is_authenticated = FALSE
    /\ token_file = "absent"
    /\ garth_account = "none"
    /\ sleep_username = "unset"
    /\ pc = "idle"
    /\ rng = NoRng /\ snap = NoSnap /\ exp = NoExp /\ rep = NoRep
    /\ last = Running("__init__")
    /\ fn \in {StatsInput(h, es) : h \in StatsHelpers, es \in ListsUpTo(MaxEntities)}

\* the helper returns
StatsReturn ==
    /\ fn.state = "called"
    /\ fn' = [fn EXCEPT !.state = "returned", !.out = ApplyHelper(fn.op, fn.input)]
    /\ UNCHANGED <<is_authenticated, token_file, garth_account, sleep_username,
                   pc, rng, snap, exp, rep, last>>

NextStats == StatsReturn

SpecStats == InitStats /\ [][NextStats]_vars

\* ------------------------------------------------------------------------
\* Response normalizers (models/*.py): raw JSON values
\* ------------------------------------------------------------------------
\* the longest raw sample array of the model
MaxSamples == 3

\* a JSON value of a response: null, the number n, the n-th text that is not
\* a number (t = "digits" is the string of the digits of n); JMissing stands for a key
\* the response does not have
JNull == [t |-> "null", v |-> 0]
JMissing == [t |-> "missing", v |-> 0]
JInt(n) == [t |-> "int", v |-> n]
JStr(n) == [t |-> "str", v |-> n]
\* the datetime of ms milliseconds since the epoch
JDatetime(ms) == [t |-> "datetime", v |-> ms]
\* a map holding n under its one inner key ({"value": n}, {"typeKey": n}),
\* a map without that key, a list of n elements, the ISO string of day n,
\* the string "other" (JStr(0) is the empty string)
JInner(n) == [t |-> "dict", v |-> n]
JEmptyDict == [t |-> "dict_novalue", v |-> 0]
JList(n) == [t |-> "list", v |-> n]
JIso(n) == [t |-> "iso", v |-> n]
JOther == JStr(3)

\* data.get(key, default) where j is what the response holds under key
Get(j, default) == IF j.t = "missing" THEN default ELSE j

\* parse_garmin_timestamp: None for None and for a non-numeric string, else
\* the datetime of the milliseconds
parse_garmin_timestamp(timestamp) ==
    IF timestamp.t = "null" THEN JNull
    ELSE IF timestamp.t \in {"str", "iso"} THEN JNull
    ELSE JDatetime(timestamp.v)

\* what one normalizer step made: the samples appended, or the exception
Made(samples) == [exc |-> NoExc, made |-> samples]
Raised(e) == [exc |-> e, made |-> <<>>]

\* StressSample(timestamp=..., stress_level=...): stress_level is a plain int
\* field, so the constructor rejects None
StressSample(timestamp, stress_level) ==
    IF stress_level.t = "int"
    THEN Made(<<[timestamp |-> timestamp, stress_level |-> stress_level.v]>>)
    ELSE Raised("ValidationError")

\* StressSample.from_garmin_response
StressSample_from_garmin_response(data) ==
    StressSample(parse_garmin_timestamp(Get(data.timestamp, JNull)),
                 Get(data.value, JInt(-1)))

\* StressSample.is_valid
is_valid(sample) == sample.stress_level >= 0

\* the elements of a raw stressValuesArray: a list [timestamp, value], a
\* list too short to be a pair, an object {timestamp, stressLevel}
Pair(timestamp, value) ==
    [shape |-> "list", len |-> 2, timestamp |-> timestamp, value |-> value]
ShortList(timestamp) ==
    [shape |-> "list", len |-> 1, timestamp |-> timestamp, value |-> JMissing]
Object(timestamp, stressLevel) ==
    [shape |-> "dict", len |-> 2, timestamp |-> timestamp, value |-> stressLevel]

\* the elements of the model's responses
RawSamples ==
    {Pair(ts, v) : ts \in {JNull, JInt(1000)}, v \in {JNull, JInt(0), JInt(80)}}
    \cup {Object(JInt(1000), v) : v \in {JMissing, JNull, JInt(0), JInt(80)}}
    \cup {ShortList(JInt(1000))}

\* one pass of the sample loop of StressData.from_garmin_response
StressSampleOf(sample) ==
    IF sample.shape = "list" /\ sample.len >= 2
    THEN StressSample(parse_garmin_timestamp(sample.timestamp),
                      IF sample.value.t # "null" THEN sample.value ELSE JInt(-1))
    ELSE IF sample.shape = "dict"
    THEN StressSample_from_garmin_response(sample)
    ELSE Made(<<>>)

\* samples.append(...) unless an earlier or this pass raised
AppendMade(acc, m) ==
    IF acc.exc # NoExc THEN acc
    ELSE IF m.exc # NoExc THEN Raised(m.exc)
    ELSE Made(acc.made \o m.made)

RECURSIVE StressSamples(_, _)
\* the sample loop: for sample in raw_samples
StressSamples(raw_samples, acc) ==
    IF raw_samples = <<>> THEN acc
    ELSE StressSamples(Tail(raw_samples),
                       AppendMade(acc, StressSampleOf(Head(raw_samples))))

RECURSIVE RawArrays(_)
\* the raw arrays of at most n elements
RawArrays(n) ==
    IF n = 0 THEN {<<>>}
    ELSE RawArrays(n - 1)
         \cup {Append(a, e) : a \in {b \in RawArrays(n - 1) : Len(b) = n - 1},
                              e \in RawSamples}

InitSamples ==
    /\ is_authenticated = FALSE
    /\ token_file = "absent"
    /\ garth_account = "none"
    /\ sleep_username = "unset"
    /\ pc = "idle"
    /\ rng = NoRng /\ snap = NoSnap /\ exp = NoExp /\ rep = NoRep
    /\ last = Running("__init__")
    /\ fn \in {[op |-> "StressData.from_garmin_response", state |-> "called",
                 input |-> raw, out |-> Made(<<>>)] : raw \in RawArrays(MaxSamples)}

\* the sample loop has run
SamplesReturn ==
    /\ fn.state = "called"
    /\ fn' = [fn EXCEPT !.state = "returned",
                        !.out = StressSamples(fn.input, Made(<<>>))]
    /\ UNCHANGED <<is_authenticated, token_file, garth_account, sleep_username,
                   pc, rng, snap, exp, rep, last>>

SpecSamples == InitSamples /\ [][SamplesReturn]_vars

\* ------------------------------------------------------------------------
\* Response normalizers: fields read under two spellings (hydration, stress)
\* ------------------------------------------------------------------------
\* the value of one keyword argument, or the exception raised on the way
Value(j) == [exc |-> NoExc, value |-> j]
Fail(e) == [exc |-> e, value |-> JNull]

\* a field of an entity: the keys it is read from (snake is "-" where the
\* normalizer probes one key only), the default of the read, the conversion
\* applied to the value read and the declared type of the field
Field(kind, name, camel, snake, default, conv, type) ==
    [kind |-> kind, name |-> name, camel |-> camel, snake |-> snake,
     default |-> default, conv |-> conv, type |-> type]

\* HydrationData.from_garmin_response: the keyword arguments of cls(...)
HydrationFields ==
    {Field("HydrationData", "calendar_date", "calendarDate", "calendar_date",
           JNull, "-", "str?"),
     Field("HydrationData", "total_intake_ml", "valueInML", "value_in_ml",
           JInt(0), "int", "int"),
     Field("HydrationData", "goal_ml", "goalInML", "goal_in_ml",
           JInt(2500), "int", "int"),
     Field("HydrationData", "sweat_loss_ml", "sweatLossInML", "sweat_loss_in_ml",
           JInt(0), "int", "int"),
     Field("HydrationData", "activity_intake_ml", "activityIntakeInML",
           "activity_intake_in_ml", JInt(0), "int", "int"),
     Field("HydrationData", "last_entry_timestamp", "lastEntryTimestampGMT",
           "last_entry_timestamp_gmt", JNull, "timestamp", "datetime?")}

\* StressData.from_garmin_response: the keyword arguments of cls(...)
StressFields ==
    {Field("StressData", "calendar_date", "calendarDate", "calendar_date",
           JNull, "-", "str?"),
     Field("StressData", "start_timestamp", "startTimestampGMT",
           "start_timestamp_gmt", JNull, "timestamp", "datetime?"),
     Field("StressData", "end_timestamp", "endTimestampGMT",
           "end_timestamp_gmt", JNull, "timestamp", "datetime?"),
     Field("StressData", "overall_stress_level", "overallStressLevel",
           "overall_stress_level", JNull, "-", "int?"),
     Field("StressData", "avg_stress_level", "avgStressLevel",
           "avg_stress_level", JNull, "-", "int?"),
     Field("StressData", "max_stress_level", "maxStressLevel",
           "max_stress_level", JNull, "-", "int?"),
     Field("StressData", "rest_stress_duration", "restStressDuration",
           "rest_stress_duration", JInt(0), "-", "int"),
     Field("StressData", "low_stress_duration", "lowStressDuration",
           "low_stress_duration", JInt(0), "-", "int"),
     Field("StressData", "medium_stress_duration", "mediumStressDuration",
           "medium_stress_duration", JInt(0), "-", "int"),
     Field("StressData", "high_stress_duration", "highStressDuration",
           "high_stress_duration", JInt(0), "-", "int"),
     Field("StressData", "activity_stress_duration", "activityStressDuration",
           "activity_stress_duration", JInt(0), "-", "int"),
     Field("StressData", "uncategorized_stress_duration",
           "uncategorizedStressDuration", "uncategorized_stress_duration",
           JInt(0), "-", "int"),
     Field("StressData", "body_battery_charged", "bodyBatteryChargedValue",
           "body_battery_charged_value", JNull, "-", "int?"),
     Field("StressData", "body_battery_drained", "bodyBatteryDrainedValue",
           "body_battery_drained_value", JNull, "-", "int?")}

\* get_val with the probes in the other order
get_val_prefers_snake(camel, snake, default) == Get(snake, Get(camel, default))

\* get_val(camel, snake, default) == data.get(camel, data.get(snake, default)),
\* where camel and snake are what the response holds under the two keys
get_val(camel, snake, default) == Get(camel, Get(snake, default))

\* int(x)
IntOf(j) ==
    IF j.t = "int" \/ j.t = "digits" THEN Value(JInt(j.v))
    ELSE IF j.t = "str" THEN Fail("ValueError")
    ELSE Fail("TypeError")

\* the conversion the normalizer applies to the value it read
Convert(conv, j) ==
    IF conv = "int" THEN IntOf(j)
    ELSE IF conv = "timestamp" THEN Value(parse_garmin_timestamp(j))
    ELSE Value(j)

\* pydantic's validation of a keyword argument against the declared type of
\* the field (a type ending in ? is `| None`)
Accepts(type, j) ==
    CASE type = "int" -> j.t \in {"int", "digits"}
      [] type = "int?" -> j.t \in {"int", "digits", "null"}
      [] type = "float" -> j.t \in {"int", "digits"}
      [] type = "float?" -> j.t \in {"int", "digits", "null"}
      [] type = "str" -> j.t \in {"str", "digits", "iso"}
      [] type = "str?" -> j.t \in {"str", "digits", "iso", "null"}
      [] type = "datetime?" -> j.t \in {"datetime", "null"}
      [] type = "date?" -> j.t \in {"date", "null"}
      [] type = "list" -> j.t = "list"
      [] type = "UserSettings?" -> j.t \in {"UserSettings", "null"}

\* cls(name=...) for one keyword argument whose evaluation gave r
Validate(type, r) ==
    IF r.exc # NoExc THEN r
    ELSE IF Accepts(type, r.value)
    THEN Value(IF r.value.t = "digits" /\ type \in {"int", "int?", "float", "float?"}
               THEN JInt(r.value.v) ELSE r.value)
    ELSE Fail("ValidationError")

\* the field of the entity built from a response holding camel and snake
\* under the two keys of the field
CasedField(f, camel, snake) ==
    Validate(f.type, Convert(f.conv, get_val(camel, snake, f.default)))

\* two values a response may hold for a field, by the type of the field
FieldValues(f) ==
    CASE f.conv \in {"score", "typekey", "settings"} -> {JInner(1), JInner(2)}
      [] f.conv = "isoformat" -> {JIso(1), JStr(1)}
      [] f.type = "list" -> {JList(0), JList(1)}
      [] f.type \in {"str", "str?"} -> {JStr(1), JStr(2)}
      [] f.type = "datetime?" -> {JInt(1000), JInt(2000)}
      [] OTHER -> {JInt(1), JInt(2)}

InitCasing ==
    /\ is_authenticated = FALSE
    /\ token_file = "absent"
    /\ garth_account = "none"
    /\ sleep_username = "unset"
    /\ pc = "idle"
    /\ rng = NoRng /\ snap = NoSnap /\ exp = NoExp /\ rep = NoRep
    /\ last = Running("__init__")
    /\ \E f \in HydrationFields \cup StressFields :
         fn \in {[op |-> "get_val", state |-> "called", field |-> f,
                   camel |-> camel, snake |-> snake, out |-> Value(JNull)] :
                    camel \in FieldValues(f) \cup {JMissing},
                    snake \in FieldValues(f) \cup {JMissing}}

\* the entity is constructed
CasingReturn ==
    /\ fn.state = "called"
    /\ fn' = [fn EXCEPT !.state = "returned",
                        !.out = CasedField(fn.field, fn.camel, fn.snake)]
    /\ UNCHANGED <<is_authenticated, token_file, garth_account, sleep_username,
                   pc, rng, snap, exp, rep, last>>

SpecCasing == InitCasing /\ [][CasingReturn]_vars

\* ------------------------------------------------------------------------
\* Response normalizers: sleep scores (models/sleep.py)
\* ------------------------------------------------------------------------
\* the six scores SleepData.from_garmin_response takes from sleepScores, with
\* the key of the nested map and the flat key of the field's alias
ScoreMetrics ==
    {[field |-> "overall_score", metric |-> "overall", flat |-> "overallScore"],
     [field |-> "quality_score", metric |-> "quality", flat |-> "qualityScore"],
     [field |-> "recovery_score", metric |-> "recovery", flat |-> "recoveryScore"],
     [field |-> "rem_score", metric |-> "rem", flat |-> "remScore"],
     [field |-> "light_score", metric |-> "light", flat |-> "lightScore"],
     [field |-> "deep_score", metric |-> "deep", flat |-> "deepScore"]}

\* sleep_scores.get(metric, {}).get("value")
InnerValue(entry) ==
    CASE entry.t = "missing" -> Value(JNull)
      [] entry.t = "dict_novalue" -> Value(JNull)
      [] entry.t = "dict" -> Value(JInt(entry.v))
      [] OTHER -> Fail("AttributeError")

\* the score of SleepData.from_garmin_response for one metric: shape and entry
\* describe data["sleepScores"], flat is the value under the flat key, which
\* the normalizer does not read
SleepScore(shape, entry, flat) ==
    IF shape = "missing" THEN Validate("int?", InnerValue(JMissing))
    ELSE IF shape = "dict" THEN Validate("int?", InnerValue(entry))
    ELSE Validate("int?", Value(JNull))

InitScores ==
    /\ is_authenticated = FALSE
    /\ token_file = "absent"
    /\ garth_account = "none"
    /\ sleep_username = "unset"
    /\ pc = "idle"
    /\ rng = NoRng /\ snap = NoSnap /\ exp = NoExp /\ rep = NoRep
    /\ last = Running("__init__")
    /\ fn \in {[op |-> "SleepData.from_garmin_response", state |-> "called",
                 metric |-> m, shape |-> shape, entry |-> entry, flat |-> flat,
                 out |-> Value(JNull)] :
                  m \in ScoreMetrics,
                  shape \in {"missing", "null", "int", "dict"},
                  entry \in {JMissing, JNull, JInner(70), JInner(90), JEmptyDict},
                  flat \in {JMissing, JInt(75), JInt(85)}}
    /\ fn.shape # "dict" => fn.entry = JMissing

\* the entity is constructed
ScoresReturn ==
    /\ fn.state = "called"
    /\ fn' = [fn EXCEPT !.state = "returned",
                        !.out = SleepScore(fn.shape, fn.entry, fn.flat)]
    /\ UNCHANGED <<is_authenticated, token_file, garth_account, sleep_username,
                   pc, rng, snap, exp, rep, last>>

SpecScores == InitScores /\ [][ScoresReturn]_vars

\* ------------------------------------------------------------------------
\* Response normalizers: every field of the eleven entity kinds
\* ------------------------------------------------------------------------
\* Activity.from_garmin_response: the keyword arguments of cls(...)
ActivityFields ==
    {Field("Activity", "activity_id", "activityId", "-", JInt(0), "-", "int"),
     Field("Activity", "activity_name", "activityName", "-", JStr(0), "-", "str"),
     Field("Activity", "start_time", "startTimeLocal", "-", JNull, "timestamp", "datetime?"),
     Field("Activity", "start_time_gmt", "startTimeGMT", "-", JNull, "timestamp", "datetime?"),
     Field("Activity", "duration_seconds", "duration", "-", JInt(0), "-", "float"),
     Field("Activity", "elapsed_duration", "elapsedDuration", "-", JInt(0), "-", "float"),
     Field("Activity", "moving_duration", "movingDuration", "-", JInt(0), "-", "float"),
     Field("Activity", "distance_meters", "distance", "-", JInt(0), "-", "float"),
     Field("Activity", "avg_speed", "averageSpeed", "-", JNull, "-", "float?"),
     Field("Activity", "max_speed", "maxSpeed", "-", JNull, "-", "float?"),
     Field("Activity", "avg_heart_rate", "averageHR", "-", JNull, "-", "int?"),
     Field("Activity", "max_heart_rate", "maxHR", "-", JNull, "-", "int?"),
     Field("Activity", "min_heart_rate", "minHR", "-", JNull, "-", "int?"),
     Field("Activity", "calories", "calories", "-", JInt(0), "-", "float"),
     Field("Activity", "active_calories", "activeCalories", "-", JInt(0), "-", "float"),
     Field("Activity", "elevation_gain", "elevationGain", "-", JNull, "-", "float?"),
     Field("Activity", "elevation_loss", "elevationLoss", "-", JNull, "-", "float?"),
     Field("Activity", "min_elevation", "minElevation", "-", JNull, "-", "float?"),
     Field("Activity", "max_elevation", "maxElevation", "-", JNull, "-", "float?"),
     Field("Activity", "avg_cadence", "averageRunningCadenceInStepsPerMinute", "-",
           JNull, "-", "float?"),
     Field("Activity", "max_cadence", "maxRunningCadenceInStepsPerMinute", "-",
           JNull, "-", "float?"),
     Field("Activity", "avg_power", "avgPower", "-", JNull, "-", "float?"),
     Field("Activity", "max_power", "maxPower", "-", JNull, "-", "float?"),
     Field("Activity", "normalized_power", "normPower", "-", JNull, "-", "float?"),
     Field("Activity", "aerobic_training_effect", "aerobicTrainingEffect", "-",
           JNull, "-", "float?"),
     Field("Activity", "anaerobic_training_effect", "anaerobicTrainingEffect", "-",
           JNull, "-", "float?"),
     Field("Activity", "training_effect_label", "trainingEffectLabel", "-", JNull, "-", "str?"),
     Field("Activity", "start_latitude", "startLatitude", "-", JNull, "-", "float?"),
     Field("Activity", "start_longitude", "startLongitude", "-", JNull, "-", "float?"),
     Field("Activity", "end_latitude", "endLatitude", "-", JNull, "-", "float?"),
     Field("Activity", "end_longitude", "endLongitude", "-", JNull, "-", "float?"),
     Field("Activity", "steps", "steps", "-", JNull, "-", "int?"),
     Field("Activity", "avg_stroke_count", "avgStrokes", "-", JNull, "-", "float?"),
     Field("Activity", "total_strokes", "strokes", "-", JNull, "-", "int?"),
     Field("Activity", "pool_length", "poolLength", "-", JNull, "-", "float?"),
     Field("Activity", "avg_swolf", "avgSwolf", "-", JNull, "-", "float?"),
     Field("Activity", "device_id", "deviceId", "-", JNull, "-", "int?"),
     Field("Activity", "activity_type", "activityType", "-", JOther, "typekey", "str"),
     Field("Activity", "activity_type_key", "activityTypeKey", "-", JOther, "-", "str")}

\* SleepData.from_garmin_response: the keyword arguments of cls(...)
SleepFields ==
    {Field("SleepData", "sleep_id", "id", "-", JNull, "-", "int?"),
     Field("SleepData", "user_profile_pk", "userProfilePK", "-", JNull, "-", "int?"),
     Field("SleepData", "calendar_date", "calendarDate", "-", JNull, "-", "str?"),
     Field("SleepData", "sleep_start", "sleepStartTimestampGMT", "-",
           JNull, "timestamp", "datetime?"),
     Field("SleepData", "sleep_end", "sleepEndTimestampGMT", "-", JNull, "timestamp", "datetime?"),
     Field("SleepData", "sleep_start_local", "sleepStartTimestampLocal", "-",
           JNull, "timestamp", "datetime?"),
     Field("SleepData", "sleep_end_local", "sleepEndTimestampLocal", "-",
           JNull, "timestamp", "datetime?"),
     Field("SleepData", "total_sleep_seconds", "sleepTimeSeconds", "-", JInt(0), "-", "int"),
     Field("SleepData", "deep_sleep_seconds", "deepSleepSeconds", "-", JInt(0), "-", "int"),
     Field("SleepData", "light_sleep_seconds", "lightSleepSeconds", "-", JInt(0), "-", "int"),
     Field("SleepData", "rem_sleep_seconds", "remSleepSeconds", "-", JInt(0), "-", "int"),
     Field("SleepData", "awake_seconds", "awakeSleepSeconds", "-", JInt(0), "-", "int"),
     Field("SleepData", "unmeasurable_seconds", "unmeasurableSleepSeconds", "-",
           JInt(0), "-", "int"),
     Field("SleepData", "restlessness_score", "restlessnessScore", "-", JNull, "-", "int?"),
     Field("SleepData", "avg_sleep_heart_rate", "averageSleepHeartRate", "-", JNull, "-", "int?"),
     Field("SleepData", "lowest_sleep_heart_rate", "lowestSleepHeartRate", "-", JNull, "-", "int?"),
     Field("SleepData", "highest_sleep_heart_rate", "highestSleepHeartRate", "-",
           JNull, "-", "int?"),
     Field("SleepData", "avg_sleep_respiration", "averageSleepRespiration", "-",
           JNull, "-", "float?"),
     Field("SleepData", "lowest_sleep_respiration", "lowestSleepRespiration", "-",
           JNull, "-", "float?"),
     Field("SleepData", "highest_sleep_respiration", "highestSleepRespiration", "-",
           JNull, "-", "float?"),
     Field("SleepData", "avg_spo2", "averageSpO2", "-", JNull, "-", "float?"),
     Field("SleepData", "lowest_spo2", "lowestSpO2", "-", JNull, "-", "float?"),
     Field("SleepData", "avg_sleep_stress", "averageSleepStress", "-", JNull, "-", "float?"),
     Field("SleepData", "avg_hrv", "avgSleepHrv", "-", JNull, "-", "float?"),
     Field("SleepData", "hrv_status", "hrvStatus", "-", JNull, "-", "str?"),
     Field("SleepData", "body_battery_change", "bodyBatteryChange", "-", JNull, "-", "int?"),
     Field("SleepData", "sleep_feedback", "sleepFeedback", "-", JNull, "-", "str?"),
     Field("SleepData", "sleep_need", "sleepNeed", "-", JNull, "-", "int?"),
     Field("SleepData", "overall_score", "sleepScores", "-", JNull, "score", "int?"),
     Field("SleepData", "quality_score", "sleepScores", "-", JNull, "score", "int?"),
     Field("SleepData", "recovery_score", "sleepScores", "-", JNull, "score", "int?"),
     Field("SleepData", "rem_score", "sleepScores", "-", JNull, "score", "int?"),
     Field("SleepData", "light_score", "sleepScores", "-", JNull, "score", "int?"),
     Field("SleepData", "deep_score", "sleepScores", "-", JNull, "score", "int?"),
     Field("SleepData", "sleep_phases", "sleepLevels", "-", JList(0), "each", "list"),
     Field("SleepData", "sleep_movements", "sleepMovement", "-", JList(0), "each", "list")}

\* StepsData.from_garmin_response: the keyword arguments of cls(...)
StepsFields ==
    {Field("StepsData", "calendar_date", "calendarDate", "-", JNull, "-", "str?"),
     Field("StepsData", "total_steps", "totalSteps", "-", JInt(0), "-", "int"),
     Field("StepsData", "step_goal", "stepGoal", "-", JInt(10000), "-", "int"),
     Field("StepsData", "total_distance_meters", "totalDistanceMeters", "-", JInt(0), "-", "float"),
     Field("StepsData", "highly_active_seconds", "highlyActiveSeconds", "-", JInt(0), "-", "int"),
     Field("StepsData", "active_seconds", "activeSeconds", "-", JInt(0), "-", "int"),
     Field("StepsData", "sedentary_seconds", "sedentarySeconds", "-", JInt(0), "-", "int"),
     Field("StepsData", "sleeping_seconds", "sleepingSeconds", "-", JInt(0), "-", "int"),
     Field("StepsData", "floors_ascended", "floorsAscended", "-", JInt(0), "-", "int"),
     Field("StepsData", "floors_descended", "floorsDescended", "-", JInt(0), "-", "int"),
     Field("StepsData", "floors_goal", "floorsGoal", "-", JInt(10), "-", "int"),
     Field("StepsData", "moderate_intensity_minutes", "moderateIntensityMinutes", "-",
           JInt(0), "-", "int"),
     Field("StepsData", "vigorous_intensity_minutes", "vigorousIntensityMinutes", "-",
           JInt(0), "-", "int"),
     Field("StepsData", "intensity_minutes_goal", "intensityMinutesGoal", "-",
           JInt(150), "-", "int"),
     Field("StepsData", "steps_samples", "stepsSamples", "-", JList(0), "each", "list")}

\* StressData.from_garmin_response: the keyword argument read under one key
StressOtherFields ==
    {Field("StressData", "stress_samples", "stressValuesArray", "-", JList(0), "each_if", "list")}

\* HeartRateData.from_garmin_response: the keyword arguments of cls(...)
HeartRateFields ==
    {Field("HeartRateData", "calendar_date", "calendarDate", "-", JNull, "-", "str?"),
     Field("HeartRateData", "start_timestamp", "startTimestampGMT", "-",
           JNull, "timestamp", "datetime?"),
     Field("HeartRateData", "end_timestamp", "endTimestampGMT", "-",
           JNull, "timestamp", "datetime?"),
     Field("HeartRateData", "resting_heart_rate", "restingHeartRate", "-", JNull, "-", "int?"),
     Field("HeartRateData", "max_heart_rate", "maxHeartRate", "-", JNull, "-", "int?"),
     Field("HeartRateData", "min_heart_rate", "minHeartRate", "-", JNull, "-", "int?"),
     Field("HeartRateData", "avg_heart_rate", "averageHeartRate", "-", JNull, "-", "int?"),
     Field("HeartRateData", "last_seven_days_avg_resting_hr", "lastSevenDaysAvgRestingHeartRate", "-",
           JNull, "-", "int?"),
     Field("HeartRateData", "heart_rate_samples", "heartRateValues", "-",
           JList(0), "each_if", "list"),
     Field("HeartRateData", "heart_rate_zones", "heartRateZones", "-", JList(0), "each", "list")}

\* DailySummary.from_garmin_response: the keyword arguments of cls(...)
DailySummaryFields ==
    {Field("DailySummary", "calendar_date", "calendarDate", "-", JStr(0), "or", "str"),
     Field("DailySummary", "total_steps", "totalSteps", "-", JInt(0), "coalesce", "int"),
     Field("DailySummary", "daily_step_goal", "dailyStepGoal", "-", JInt(10000), "coalesce", "int"),
     Field("DailySummary", "total_distance_meters", "totalDistanceMeters", "-",
           JInt(0), "coalesce", "int"),
     Field("DailySummary", "total_kilocalories", "totalKilocalories", "-",
           JInt(0), "coalesce", "int"),
     Field("DailySummary", "active_kilocalories", "activeKilocalories", "-",
           JInt(0), "coalesce", "int"),
     Field("DailySummary", "bmr_kilocalories", "bmrKilocalories", "-", JInt(0), "coalesce", "int"),
     Field("DailySummary", "consumed_kilocalories", "consumedKilocalories", "-",
           JNull, "-", "int?"),
     Field("DailySummary", "net_calorie_goal", "netCalorieGoal", "-", JNull, "-", "int?"),
     Field("DailySummary", "remaining_kilocalories", "remainingKilocalories", "-",
           JNull, "-", "int?"),
     Field("DailySummary", "resting_heart_rate", "restingHeartRate", "-", JNull, "-", "int?"),
     Field("DailySummary", "min_heart_rate", "minHeartRate", "-", JNull, "-", "int?"),
     Field("DailySummary", "max_heart_rate", "maxHeartRate", "-", JNull, "-", "int?"),
     Field("DailySummary", "avg_heart_rate", "averageHeartRate", "-", JNull, "-", "int?"),
     Field("DailySummary", "avg_stress_level", "averageStressLevel", "-", JNull, "-", "int?"),
     Field("DailySummary", "max_stress_level", "maxStressLevel", "-", JNull, "-", "int?"),
     Field("DailySummary", "stress_duration", "stressDuration", "-", JInt(0), "coalesce", "int"),
     Field("DailySummary", "rest_stress_duration", "restStressDuration", "-",
           JInt(0), "coalesce", "int"),
     Field("DailySummary", "body_battery_charged_value", "bodyBatteryChargedValue", "-",
           JNull, "-", "int?"),
     Field("DailySummary", "body_battery_drained_value", "bodyBatteryDrainedValue", "-",
           JNull, "-", "int?"),
     Field("DailySummary", "body_battery_highest_value", "bodyBatteryHighestValue", "-",
           JNull, "-", "int?"),
     Field("DailySummary", "body_battery_lowest_value", "bodyBatteryLowestValue", "-",
           JNull, "-", "int?"),
     Field("DailySummary", "body_battery_most_recent_value", "bodyBatteryMostRecentValue", "-",
           JNull, "-", "int?"),
     Field("DailySummary", "floors_ascended", "floorsAscended", "-",
           JInt(0), "coalesce_or", "float"),
     Field("DailySummary", "floors_descended", "floorsDescended", "-",
           JInt(0), "coalesce_or", "float"),
     Field("DailySummary", "floors_ascended_goal", "floorsAscendedGoal", "-",
           JInt(10), "coalesce", "int"),
     Field("DailySummary", "moderate_intensity_minutes", "moderateIntensityMinutes", "-",
           JInt(0), "coalesce", "int"),
     Field("DailySummary", "vigorous_intensity_minutes", "vigorousIntensityMinutes", "-",
           JInt(0), "coalesce", "int"),
     Field("DailySummary", "intensity_minutes_goal", "intensityMinutesGoal", "-",
           JInt(150), "coalesce", "int"),
     Field("DailySummary", "highly_active_seconds", "highlyActiveSeconds", "-",
           JInt(0), "coalesce", "int"),
     Field("DailySummary", "active_seconds", "activeSeconds", "-", JInt(0), "coalesce", "int"),
     Field("DailySummary", "sedentary_seconds", "sedentarySeconds", "-",
           JInt(0), "coalesce", "int"),
     Field("DailySummary", "sleeping_seconds", "sleepingSeconds", "-", JInt(0), "coalesce", "int"),
     Field("DailySummary", "avg_waking_respiration_value", "avgWakingRespirationValue", "-",
           JNull, "coalesce", "float?"),
     Field("DailySummary", "highest_respiration_value", "highestRespirationValue", "-",
           JNull, "coalesce", "float?"),
     Field("DailySummary", "lowest_respiration_value", "lowestRespirationValue", "-",
           JNull, "coalesce", "float?"),
     Field("DailySummary", "avg_spo2_value", "averageSpO2", "-", JNull, "coalesce", "float?"),
     Field("DailySummary", "lowest_spo2_value", "lowestSpO2", "-", JNull, "coalesce", "float?"),
     Field("DailySummary", "latest_spo2_value", "latestSpO2", "-", JNull, "coalesce", "float?"),
     Field("DailySummary", "hrv_status", "hrvStatus", "-", JNull, "-", "str?"),
     Field("DailySummary", "activities_count", "activitiesCount", "-", JInt(0), "coalesce", "int"),
     Field("DailySummary", "user_daily_summary_id", "userDailySummaryId", "-", JNull, "-", "int?")}

\* BodyComposition.from_garmin_response: the keyword arguments of cls(...)
BodyCompositionFields ==
    {Field("BodyComposition", "sample_pk", "samplePk", "-", JNull, "-", "int?"),
     Field("BodyComposition", "date", "calendarDate", "-", JNull, "-", "str?"),
     Field("BodyComposition", "timestamp", "timestampGMT", "-", JNull, "timestamp", "datetime?"),
     Field("BodyComposition", "weight_grams", "weight", "-", JInt(0), "-", "int"),
     Field("BodyComposition", "body_fat_percentage", "bodyFat", "-", JNull, "-", "float?"),
     Field("BodyComposition", "body_water_percentage", "bodyWater", "-", JNull, "-", "float?"),
     Field("BodyComposition", "bone_mass_grams", "boneMass", "-", JNull, "-", "int?"),
     Field("BodyComposition", "muscle_mass_grams", "muscleMass", "-", JNull, "-", "int?"),
     Field("BodyComposition", "visceral_fat_level", "visceralFat", "-", JNull, "-", "int?"),
     Field("BodyComposition", "metabolic_age", "metabolicAge", "-", JNull, "-", "int?"),
     Field("BodyComposition", "physique_rating", "physiqueRating", "-", JNull, "-", "int?"),
     Field("BodyComposition", "bmi", "bMI", "-", JNull, "-", "float?"),
     Field("BodyComposition", "source_type", "sourceType", "-", JNull, "-", "str?")}

\* Weight.from_garmin_response: the keyword arguments of cls(...)
WeightFields ==
    {Field("Weight", "sample_pk", "samplePk", "-", JNull, "-", "int?"),
     Field("Weight", "date", "calendarDate", "-", JNull, "-", "str?"),
     Field("Weight", "timestamp", "timestampGMT", "-", JNull, "timestamp", "datetime?"),
     Field("Weight", "weight_grams", "weight", "-", JInt(0), "-", "int"),
     Field("Weight", "source_type", "sourceType", "-", JNull, "-", "str?")}

\* RespirationData.from_garmin_response: the keyword arguments of cls(...)
RespirationFields ==
    {Field("RespirationData", "calendar_date", "calendarDate", "-", JNull, "-", "str?"),
     Field("RespirationData", "start_timestamp", "startTimestampGMT", "-",
           JNull, "timestamp", "datetime?"),
     Field("RespirationData", "end_timestamp", "endTimestampGMT", "-",
           JNull, "timestamp", "datetime?"),
     Field("RespirationData", "avg_waking_respiration", "avgWakingRespirationValue", "-",
           JNull, "-", "float?"),
     Field("RespirationData", "avg_sleeping_respiration", "avgSleepingRespirationValue", "-",
           JNull, "-", "float?"),
     Field("RespirationData", "highest_respiration", "highestRespirationValue", "-",
           JNull, "-", "float?"),
     Field("RespirationData", "lowest_respiration", "lowestRespirationValue", "-",
           JNull, "-", "float?"),
     Field("RespirationData", "respiration_samples", "respirationValuesArray", "-",
           JList(0), "each_if", "list")}

\* UserProfile.from_garmin_response: the keyword arguments of cls(...)
UserProfileFields ==
    {Field("UserProfile", "profile_id", "profileId", "id", JNull, "or_get", "int?"),
     Field("UserProfile", "garmin_guid", "garminGUID", "-", JNull, "-", "str?"),
     Field("UserProfile", "display_name", "displayName", "-", JNull, "-", "str?"),
     Field("UserProfile", "full_name", "fullName", "-", JNull, "-", "str?"),
     Field("UserProfile", "user_name", "userName", "-", JNull, "-", "str?"),
     Field("UserProfile", "email", "email", "-", JNull, "-", "str?"),
     Field("UserProfile", "gender", "gender", "-", JNull, "-", "str?"),
     Field("UserProfile", "age", "age", "-", JNull, "-", "int?"),
     Field("UserProfile", "height_cm", "height", "-", JNull, "-", "float?"),
     Field("UserProfile", "weight_kg", "weight", "-", JNull, "-", "float?"),
     Field("UserProfile", "country_code", "countryCode", "-", JNull, "-", "str?"),
     Field("UserProfile", "time_zone", "timeZone", "-", JNull, "-", "str?"),
     Field("UserProfile", "locale", "locale", "-", JNull, "-", "str?"),
     Field("UserProfile", "profile_image_url", "profileImageUrl", "-", JNull, "-", "str?"),
     Field("UserProfile", "profile_image_url_large", "profileImageUrlLarge", "-",
           JNull, "-", "str?"),
     Field("UserProfile", "birth_date", "birthDate", "-", JNull, "isoformat", "date?"),
     Field("UserProfile", "registration_date", "registrationDate", "-",
           JNull, "isoformat", "datetime?"),
     Field("UserProfile", "settings", "userSettings", "settings",
           JNull, "settings", "UserSettings?")}

\* bool(x)
Truthy(j) ==
    ~(\/ j.t = "null"
      \/ j.t = "dict_novalue"
      \/ (j.t \in {"int", "str", "list"} /\ j.v = 0))

\* val if val is not None else default (get_int, get_float of DailySummary)
Coalesce(val, default) == IF val.t # "null" THEN val ELSE default

\* a or b
Or(a, b) == IF Truthy(a) THEN a ELSE b

\* for x in raw: ... append(...), which raises on None
Each(raw) == IF raw.t = "list" THEN Value(raw) ELSE Fail("TypeError")

\* if raw: for x in raw: ...
EachIf(raw) == IF Truthy(raw) THEN Each(raw) ELSE Value(JList(0))

\* the shape of what the response holds under sleepScores
ScoreShape(j) == IF j.t \in {"missing", "null", "int"} THEN j.t ELSE "dict"

\* Activity.from_garmin_response: activity_type from data.get("activityType", {})
TypeKey(activity_type_data) ==
    IF activity_type_data.t = "dict" THEN JStr(activity_type_data.v)
    ELSE IF activity_type_data.t = "dict_novalue" THEN JOther
    ELSE IF Truthy(activity_type_data) THEN JStr(activity_type_data.v)
    ELSE JOther

\* UserProfile.from_garmin_response: date.fromisoformat / datetime.fromisoformat
\* of a string, None when it does not parse
IsoFormat(type, j) ==
    IF j.t = "iso" THEN [t |-> IF type = "date?" THEN "date" ELSE "datetime", v |-> j.v]
    ELSE IF j.t \in {"str", "digits"} THEN JNull
    ELSE j

\* UserSettings.from_garmin_response(settings_data) if settings_data else None
Settings(settings_data) ==
    IF Truthy(settings_data) THEN [t |-> "UserSettings", v |-> settings_data.v]
    ELSE JNull

\* the expression a normalizer passes to cls(...) for field f, given what the
\* response holds under the key (camel) and the second key (snake) of f
ReadField(f, camel, snake) ==
    CASE f.conv \in {"-", "int", "timestamp"} ->
             Convert(f.conv, get_val(camel, snake, f.default))
      [] f.conv = "coalesce" -> Value(Coalesce(Get(camel, JNull), f.default))
      [] f.conv = "coalesce_or" ->
             Value(Or(Coalesce(Get(camel, JNull), f.default), f.default))
      [] f.conv = "or" -> Value(Or(Get(camel, JNull), f.default))
      [] f.conv = "or_get" -> Value(Or(Get(camel, JNull), Get(snake, JNull)))
      [] f.conv = "each" -> Each(Get(camel, f.default))
      [] f.conv = "each_if" -> EachIf(Get(camel, f.default))
      [] f.conv = "score" -> SleepScore(ScoreShape(camel), camel, JMissing)
      [] f.conv = "typekey" -> Value(TypeKey(Get(camel, JEmptyDict)))
      [] f.conv = "isoformat" -> Value(IsoFormat(f.type, Get(camel, JNull)))
      [] f.conv = "settings" ->
             Value(Settings(Or(Get(camel, JNull), Get(snake, JNull))))

\* field f of the entity built from the response, or the exception
BuiltField(f, camel, snake) == Validate(f.type, ReadField(f, camel, snake))

InitFields ==
    /\ is_authenticated = FALSE
    /\ token_file = "absent"
    /\ garth_account = "none"
    /\ sleep_username = "unset"
    /\ pc = "idle"
    /\ rng = NoRng /\ snap = NoSnap /\ exp = NoExp /\ rep = NoRep
    /\ last = Running("__init__")
    /\ \E f \in ActivityFields \cup SleepFields \cup StepsFields \cup StressFields
                \cup StressOtherFields \cup HeartRateFields \cup DailySummaryFields
                \cup BodyCompositionFields \cup WeightFields \cup HydrationFields
                \cup RespirationFields \cup UserProfileFields :
         fn \in {[op |-> "from_garmin_response", state |-> "called", field |-> f,
                   camel |-> camel, snake |-> snake, out |-> Value(JNull),
                   back |-> Value(JNull)] :
                    camel \in FieldValues(f) \cup {JMissing, JNull},
                    snake \in IF f.snake = "-" THEN {JMissing}
                              ELSE FieldValues(f) \cup {JMissing, JNull}}

\* the entity is constructed
FieldsReturn ==
    /\ fn.state = "called"
    /\ fn' = [fn EXCEPT !.state = "returned",
                        !.out = BuiltField(fn.field, fn.camel, fn.snake)]
    /\ UNCHANGED <<is_authenticated, token_file, garth_account, sleep_username,
                   pc, rng, snap, exp, rep, last>>

\* GarminBaseModel.to_dict: model_dump(mode="json", exclude_none=True) of one
\* field value; None is left out, dates and datetimes become ISO strings, a
\* nested model becomes a map
to_dict(j) ==
    CASE j.t = "null" -> JMissing
      [] j.t \in {"datetime", "date"} -> JIso(j.v)
      [] j.t = "UserSettings" -> JInner(j.v)
      [] OTHER -> j

\* what the dict of to_dict holds under key, when the entity holds a value
\* dumped as j in field f: model_dump writes each value under the name of its
\* field, not under its alias
DumpedUnder(f, key, j) == IF key = f.name THEN j ELSE JMissing

\* from_garmin_response(e.to_dict()) for the entity e just built
FieldsRoundTrip ==
    /\ fn.state = "returned"
    /\ fn.out.exc = NoExc
    /\ fn' = [fn EXCEPT !.state = "reparsed",
                        !.back = BuiltField(fn.field,
                                            DumpedUnder(fn.field, fn.field.camel,
                                                        to_dict(fn.out.value)),
                                            DumpedUnder(fn.field, fn.field.snake,
                                                        to_dict(fn.out.value)))]
    /\ UNCHANGED <<is_authenticated, token_file, garth_account, sleep_username,
                   pc, rng, snap, exp, rep, last>>

NextFields ==
    \/ FieldsReturn
    \/ FieldsRoundTrip

SpecFields == InitFields /\ [][NextFields]_vars

\* ------------------------------------------------------------------------
\* Goal percentages (models/steps.py, models/hydration.py, models/daily.py)
\* ------------------------------------------------------------------------
\* the largest step count, intake or goal of the model
MaxAmount == 4

\* goal_percentage without the test of the goal
goal_percentage_unguarded(actual, goal) == Quotient(actual * 100, goal)

\* StepsData.goal_percentage and HydrationData.goal_percentage (the same code
\* over total_steps / step_goal and total_intake_ml / goal_ml); the float
\* (actual / goal) * 100.0 is kept as the exact fraction
goal_percentage(actual, goal) ==
    IF goal > 0 THEN Quotient(actual * 100, goal) ELSE Zero

\* DailySummary.step_goal_percentage
step_goal_percentage(total_steps, daily_step_goal) ==
    IF daily_step_goal > 0 THEN Quotient(total_steps * 100, daily_step_goal) ELSE Zero

InitGoal ==
    /\ is_authenticated = FALSE
    /\ token_file = "absent"
    /\ garth_account = "none"
    /\ sleep_username = "unset"
    /\ pc = "idle"
    /\ rng = NoRng /\ snap = NoSnap /\ exp = NoExp /\ rep = NoRep
    /\ last = Running("__init__")
    /\ fn \in {[op |-> a, state |-> "called", actual |-> x, goal |-> g, out |-> None] :
                  a \in {"StepsData.goal_percentage", "HydrationData.goal_percentage",
                         "DailySummary.step_goal_percentage"},
                  x \in 0..MaxAmount, g \in 0..MaxAmount}

\* the accessor returns
GoalReturn ==
    /\ fn.state = "called"
    /\ fn' = [fn EXCEPT !.state = "returned",
                        !.out = IF fn.op = "DailySummary.step_goal_percentage"
                                THEN step_goal_percentage(fn.actual, fn.goal)
                                ELSE goal_percentage(fn.actual, fn.goal)]
    /\ UNCHANGED <<is_authenticated, token_file, garth_account, sleep_username,
                   pc, rng, snap, exp, rep, last>>

SpecGoal == InitGoal /\ [][GoalReturn]_vars

\* ------------------------------------------------------------------------
\* create_auth and GarminClient.from_saved_tokens
\* ------------------------------------------------------------------------
\* the email and password arguments: None, the empty string, or a value
Emails == {"None", ""} \cup Accounts
Passwords == {"None", "", "secret"}

\* create_auth that logs in whenever credentials are given, auto_login or not
create_auth_ignores_auto_login(w, email, password, auto_login, lo, wr, rexc) ==
    LET l == load_tokens([w EXCEPT !.auth = FALSE], rexc)
    IN  IF l.exc # NoExc \/ l.ret = "True"
        THEN Outcome(l.w, IF l.exc = NoExc THEN "auth" ELSE "-", l.exc, l.cause, 1, 0)
        ELSE IF email \notin {"None", ""} /\ password \notin {"None", ""}
             THEN LET g == login(l.w, email, lo, TRUE, wr)
                  IN  Outcome(g.w, IF g.exc = NoExc THEN "auth" ELSE "-",
                              g.exc, g.cause, 1, g.vendor)
        ELSE Outcome(l.w, "auth", NoExc, NoExc, 1, 0)

\* a new GarminAuth is not authenticated; the token file and the garth client
\* of the process are the ones the world holds
create_auth(w, email, password, auto_login, lo, wr, rexc) ==
    LET l == load_tokens([w EXCEPT !.auth = FALSE], rexc)
    IN  IF l.exc # NoExc \/ l.ret = "True"
        THEN Outcome(l.w, IF l.exc = NoExc THEN "auth" ELSE "-", l.exc, l.cause, 1, 0)
        ELSE IF auto_login /\ email \notin {"None", ""} /\ password \notin {"None", ""}
             THEN LET g == login(l.w, email, lo, TRUE, wr)
                  IN  Outcome(g.w, IF g.exc = NoExc THEN "auth" ELSE "-",
                              g.exc, g.cause, 1, g.vendor)
        ELSE Outcome(l.w, "auth", NoExc, NoExc, 1, 0)

\* from_saved_tokens on the outcome c of create_auth(token_dir=token_dir)
from_saved_tokens_of(c) ==
    IF c.exc # NoExc THEN c
    ELSE IF ~c.w.auth
         THEN Outcome(c.w, "-", "AuthenticationError", NoExc, c.loads, c.vendor)
    ELSE Outcome(c.w, "client", NoExc, NoExc, c.loads, c.vendor)

from_saved_tokens(w, rexc) ==
    from_saved_tokens_of(create_auth(w, "None", "None", TRUE, "ok", "ok", rexc))

\* what a call was given, and the token file it found
Given(email, password, auto_login, lo) ==
    [email |-> email, password |-> password, auto_login |-> auto_login,
     lo |-> lo, file |-> token_file]

CreateAuth ==
    /\ pc = "idle"
    /\ \E email \in Emails, password \in Passwords, auto_login \in BOOLEAN,
          lo \in LoginOutcomes, wr \in WriteOutcomes, rexc \in ResumeErrorsNow :
         Finish("create_auth", Given(email, password, auto_login, lo), wr,
                create_auth(World, email, password, auto_login, lo, wr, rexc))

FromSavedTokens ==
    /\ pc = "idle"
    /\ \E rexc \in ResumeErrorsNow :
         Finish("from_saved_tokens", Given("None", "None", TRUE, "ok"), "-",
                from_saved_tokens(World, rexc))

NextCreate ==
    \/ CreateAuth
    \/ FromSavedTokens
    \/ Logout

SpecCreate == Init /\ [][NextCreate]_vars

\* ------------------------------------------------------------------------
\* GarmerConfig and load_config
\* ------------------------------------------------------------------------
\* the most environment variables a call finds set
MaxEnvSet == 2

\* a configuration value: the type it has and its text
Cv(t, v) == [t |-> t, v |-> v]

ConfigKeys == {"token_dir", "token_file", "log_level", "log_file", "export_dir",
               "export_format", "cache_enabled", "cache_ttl_seconds",
               "request_timeout", "max_retries"}

\* GarmerConfig(): the default of every setting
GarmerConfig ==
    [token_dir |-> Cv("path", "~/.garmer"),
     token_file |-> Cv("str", "garmin_tokens"),
     log_level |-> Cv("str", "INFO"),
     log_file |-> Cv("none", "None"),
     export_dir |-> Cv("path", "~/.garmer/exports"),
     export_format |-> Cv("str", "json"),
     cache_enabled |-> Cv("bool", "True"),
     cache_ttl_seconds |-> Cv("int", "300"),
     request_timeout |-> Cv("int", "30"),
     max_retries |-> Cv("int", "3")]

\* the dict env_mappings of from_env
env_mappings ==
    [GARMER_TOKEN_DIR |-> "token_dir",
     GARMER_TOKEN_FILE |-> "token_file",
     GARMER_LOG_LEVEL |-> "log_level",
     GARMER_LOG_FILE |-> "log_file",
     GARMER_EXPORT_DIR |-> "export_dir",
     GARMER_EXPORT_FORMAT |-> "export_format",
     GARMER_CACHE_ENABLED |-> "cache_enabled",
     GARMER_CACHE_TTL |-> "cache_ttl_seconds",
     GARMER_REQUEST_TIMEOUT |-> "request_timeout",
     GARMER_MAX_RETRIES |-> "max_retries"]

\* str.upper of a setting's name
Upper ==
    [token_dir |-> "TOKEN_DIR",
     token_file |-> "TOKEN_FILE",
     log_level |-> "LOG_LEVEL",
     log_file |-> "LOG_FILE",
     export_dir |-> "EXPORT_DIR",
     export_format |-> "EXPORT_FORMAT",
     cache_enabled |-> "CACHE_ENABLED",
     cache_ttl_seconds |-> "CACHE_TTL_SECONDS",
     request_timeout |-> "REQUEST_TIMEOUT",
     max_retries |-> "MAX_RETRIES"]

\* os.environ.get(name) of a variable that is not set
NoValue == "(not set)"

\* the texts a variable is set to; only the first is a number
EnvValues == {"1", "TRUE", "abc"}

\* str.lower
Lower(value) == IF value = "TRUE" THEN "true" ELSE value

\* the variables a call reads: those of env_mappings and those load_config
\* names by f"GARMER_{key.upper()}"
EnvNames == DOMAIN env_mappings \cup {"GARMER_" \o Upper[key] : key \in ConfigKeys}

\* the type conversion of from_env
ConvertEnv(config_key, value) ==
    IF config_key \in {"cache_enabled"}
    THEN Cv("bool", IF Lower(value) \in {"true", "1", "yes"} THEN "True" ELSE "False")
    ELSE IF config_key \in {"cache_ttl_seconds", "request_timeout", "max_retries"}
         THEN IF value = "1" THEN Cv("int", value) ELSE Cv("ValueError", value)
    ELSE IF config_key \in {"token_dir", "log_file", "export_dir"}
         THEN Cv("path", value)
    ELSE Cv("str", value)

\* GarmerConfig.from_env under the environment env
from_env(env) ==
    LET config_data == [env_var \in {n \in DOMAIN env_mappings : env[n] # NoValue} |->
                           ConvertEnv(env_mappings[env_var], env[env_var])]
    IN  IF \E env_var \in DOMAIN config_data : config_data[env_var].t = "ValueError"
        THEN Fail("ValueError")
        ELSE Value([key \in ConfigKeys |->
                      IF \E env_var \in DOMAIN config_data : env_mappings[env_var] = key
                      THEN config_data[CHOOSE env_var \in DOMAIN config_data :
                                           env_mappings[env_var] = key]
                      ELSE GarmerConfig[key]])

\* ~/.garmer/config.json: absent, not loadable, or a dict of some settings
Missing == Cv("missing", "-")

FileValue(key) ==
    Cv(IF key = "log_file" THEN "path" ELSE GarmerConfig[key].t,
       CASE GarmerConfig[key].t = "int" -> "60"
         [] GarmerConfig[key].t = "bool" -> "False"
         [] OTHER -> "from-file")

ConfigFile(state, keys) ==
    [state |-> state,
     data |-> [key \in ConfigKeys |-> IF key \in keys THEN FileValue(key) ELSE Missing]]

ConfigFiles ==
    {ConfigFile("absent", {}), ConfigFile("invalid", ConfigKeys)}
    \cup {ConfigFile("valid", keys) :
            keys \in {{}, ConfigKeys, {"cache_ttl_seconds"}, {"token_dir", "token_file"}}}

\* GarmerConfig.from_file
from_file(file) ==
    IF file.state = "absent" THEN GarmerConfig
    ELSE IF file.state = "invalid" THEN GarmerConfig
    ELSE [key \in ConfigKeys |->
            IF file.data[key] = Missing THEN GarmerConfig[key] ELSE file.data[key]]

\* load_config, from_env having had outcome env_config
load_config_merge(env, file, env_config) ==
    IF env_config.exc # NoExc THEN env_config
    ELSE Value([key \in ConfigKeys |->
                  IF env["GARMER_" \o Upper[key]] # NoValue
                  THEN env_config.value[key]
                  ELSE IF file.state # "absent" THEN from_file(file)[key]
                  ELSE GarmerConfig[key]])

load_config(env, file) == load_config_merge(env, file, from_env(env))

\* the environments with at most MaxEnvSet variables set
Environment(set) == [n \in EnvNames |-> IF n \in DOMAIN set THEN set[n] ELSE NoValue]

Environments ==
    {Environment(set) :
        set \in UNION {[names -> EnvValues] :
                         names \in {ns \in SUBSET EnvNames : Cardinality(ns) <= MaxEnvSet}}}

InitConfig ==
    /\ is_authenticated = FALSE
    /\ token_file = "absent"
    /\ garth_account = "none"
    /\ sleep_username = "unset"
    /\ pc = "idle"
    /\ rng = NoRng /\ snap = NoSnap /\ exp = NoExp /\ rep = NoRep
    /\ last = Running("__init__")
    /\ fn \in {[op |-> "load_config", state |-> "called", env |-> env, file |-> file,
                out |-> Value(GarmerConfig)] :
                  env \in Environments, file \in ConfigFiles}

ConfigReturn ==
    /\ fn.op = "load_config" /\ fn.state = "called"
    /\ fn' = [fn EXCEPT !.state = "returned", !.out = load_config(fn.env, fn.file)]
    /\ UNCHANGED <<is_authenticated, token_file, garth_account, sleep_username,
                   pc, rng, snap, exp, rep, last>>

SpecConfig == InitConfig /\ [][ConfigReturn]_vars

\* ------------------------------------------------------------------------
\* The command line: each command is a process of its own, with a new
\* GarminAuth and a garth client that holds no tokens
\* ------------------------------------------------------------------------
DataCommands == {"summary", "sleep", "activities", "activity", "snapshot", "export"}

\* GarminAuth.DEFAULT_TOKEN_DIR / DEFAULT_TOKEN_FILE, the path of token_file
DefaultTokenPath == <<"~/.garmer", "garmin_tokens">>

\* the world a command starts in
Process == [auth |-> FALSE, file |-> token_file, garth |-> "none"]

\* the end of a command: its exit code, the exception it ended with, whether
\* its fetch found data
Exit(w, code, exc, found) == [w |-> w, code |-> code, exc |-> exc, found |-> found]

\* cmd_login, GarminClient.from_credentials(email, password, save_tokens=True)
\* having had outcome b
cmd_login(b) ==
    IF b.exc = NoExc THEN Exit(b.w, 0, NoExc, FALSE)
    ELSE Exit(b.w, 1, IF IsSubclass(b.exc, "AuthenticationError") THEN NoExc ELSE b.exc,
              FALSE)

\* cmd_logout, load_config() having had outcome config
cmd_logout(w, config, del) ==
    IF config.exc # NoExc THEN Exit(w, 1, config.exc, FALSE)
    ELSE LET token_path == <<config.value.token_dir.v, config.value.token_file.v>>
         IN  IF token_path = DefaultTokenPath /\ w.file # "absent"
             THEN IF del = "ok"
                  THEN Exit([w EXCEPT !.file = "absent"], 0, NoExc, FALSE)
                  ELSE Exit(w, 1, "OSError", FALSE)
             ELSE Exit(w, 0, NoExc, FALSE)

\* cmd_status, from_saved_tokens() having had outcome c: get_profile catches
\* every exception of its fetch
cmd_status(c) ==
    IF c.exc = NoExc THEN Exit(c.w, 0, NoExc, FALSE)
    ELSE Exit(c.w, 1, IF IsSubclass(c.exc, "AuthenticationError") THEN NoExc ELSE c.exc,
              FALSE)

\* a data command, from_saved_tokens() having had outcome c and the fetch of
\* the command outcome g
cmd_data(cmd, c, g) ==
    IF c.exc # NoExc
    THEN Exit(c.w, 1, IF IsSubclass(c.exc, "AuthenticationError") THEN NoExc ELSE c.exc,
              FALSE)
    ELSE IF g.ret # "entity"
         THEN CASE cmd = "summary" -> Exit(g.w, 1, NoExc, FALSE)
                [] cmd = "sleep" -> Exit(g.w, 0, NoExc, FALSE)
                [] cmd = "activities" -> Exit(g.w, 0, NoExc, FALSE)
                [] cmd = "activity" -> Exit(g.w, 1, NoExc, FALSE)
                [] cmd = "snapshot" -> Exit(g.w, 0, NoExc, FALSE)
                [] cmd = "export" -> Exit(g.w, 0, NoExc, FALSE)
    ELSE Exit(g.w, 0, NoExc, TRUE)

\* the fetch of a data command on the client c.w: like get_for_date, the
\* listing, snapshot and export calls catch every exception of their fetches
\* and return an empty result
CommandFetch(cmd, c, va, rexc) ==
    get_for_date(IF cmd = "sleep" THEN "sleep" ELSE "daily", c.w, "unset",
                 "date", Epoch, va, rexc)

\* the configurations of the token path: GARMER_TOKEN_DIR and
\* GARMER_TOKEN_FILE set or not, and the states of config.json
CliEnvironments ==
    {Environment(set) :
        set \in UNION {[names -> {"abc"}] :
                         names \in SUBSET {"GARMER_TOKEN_DIR", "GARMER_TOKEN_FILE"}}}

InitCli ==
    /\ is_authenticated = FALSE
    /\ token_file \in TokenFileStates
    /\ garth_account = "none"
    /\ sleep_username = "unset"
    /\ pc = "idle"
    /\ rng = NoRng /\ snap = NoSnap /\ exp = NoExp /\ rep = NoRep
    /\ last = Running("__init__")
    /\ fn \in {[op |-> "cli", state |-> "-", env |-> env, file |-> file] :
                  env \in CliEnvironments, file \in ConfigFiles}

\* a command ends with e; state tells what the commands run so far did to the
\* tokens: a login succeeded ("login"), and then a logout ran ("logout")
Command(cmd, input, e, state) ==
    /\ SetWorld(e.w)
    /\ last' = [op |-> cmd, input |-> input, code |-> e.code, exc |-> e.exc,
                found |-> e.found]
    /\ fn' = [fn EXCEPT !.state = state]
    /\ UNCHANGED <<sleep_username, pc, rng, snap, exp, rep>>

CmdLogin ==
    /\ fn.op = "cli"
    /\ \E email \in Accounts, lo \in LoginOutcomes, wr \in WriteOutcomes :
         LET e == cmd_login(login(Process, email, lo, TRUE, wr))
         IN  Command("login", lo, e, IF e.code = 0 THEN "login" ELSE "-")

CmdLogout ==
    /\ fn.op = "cli"
    /\ \E del \in DeleteOutcomes :
         LET e == cmd_logout(Process, load_config(fn.env, fn.file), del)
         IN  Command("logout", del, e,
                     IF e.code = 0 /\ fn.state \in {"login", "logout"}
                     THEN "logout" ELSE "-")

CmdStatus ==
    /\ fn.op = "cli"
    /\ \E rexc \in ResumeErrorsNow :
         Command("status", "-", cmd_status(from_saved_tokens(Process, rexc)), fn.state)

CmdData ==
    /\ fn.op = "cli"
    /\ \E cmd \in DataCommands, va \in FetchAnswers, rexc \in ResumeErrorsNow :
         LET c == from_saved_tokens(Process, rexc)
         IN  Command(cmd, va, cmd_data(cmd, c, CommandFetch(cmd, c, va, rexc)), fn.state)

NextCli ==
    \/ CmdLogin
    \/ CmdLogout
    \/ CmdStatus
    \/ CmdData

SpecCli == InitCli /\ [][NextCli]_vars

\* ------------------------------------------------------------------------
\* The session as the auth manager and the extractors use it
\* ------------------------------------------------------------------------
\* an extractor's _make_request
MakeRequest ==
    /\ pc = "idle"
    /\ \E va \in FetchAnswers, rexc \in ResumeErrorsNow :
        LET m == _make_request(World, sleep_username, va, rexc)
        IN  /\ SetWorld(m.w)
            /\ last' = [Running("_make_request") EXCEPT
                          !.input = IF m.vendor = 0 THEN "nocall" ELSE va,
                          !.ret = m.ret, !.exc = m.exc,
                          !.loads = m.loads, !.vendor = m.vendor]
            /\ rng' = NoRng /\ snap' = NoSnap /\ exp' = NoExp /\ rep' = NoRep
            /\ UNCHANGED <<sleep_username, pc, fn>>

NextSession ==
    \/ Login
    \/ Logout
    \/ EnsureAuthenticated
    \/ Request
    \/ MakeRequest

SpecSession == Init /\ [][NextSession]_vars

\* ------------------------------------------------------------------------
\* Properties of the auth manager (checked under Spec)
\* ------------------------------------------------------------------------
\* C1: a new GarminAuth is unauthenticated; the flag is a boolean; a step
\* takes the session from unauthenticated to authenticated only when it is a
\* login that returned True or a load_tokens that succeeded (called by the
\* user, by ensure_authenticated or by request); logout and the detection of
\* a 401 by request leave it unauthenticated.
C1_AuthenticatedOnlyByLoginOrResume ==
    /\ (last.op = "__init__" => is_authenticated = FALSE)
    /\ [][ /\ is_authenticated' \in BOOLEAN
           /\ (~is_authenticated /\ is_authenticated') =>
                \/ last'.op = "login" /\ last'.ret = "True"
                \/ /\ last'.op \in {"load_tokens", "ensure_authenticated", "request"}
                   /\ last'.loads = 1
                   /\ token_file \in Accounts
           /\ last'.op = "logout" => ~is_authenticated'
           /\ (last'.op = "request" /\ last'.exc = "SessionExpiredError")
                => ~is_authenticated' ]_vars

C1_Witness ==
    /\ is_authenticated
    /\ last.op = "load_tokens"
    /\ last.ret = "True"

\* C2 as stated: a 401 marks the session invalid and raises
\* SessionExpiredError, a subclass of AuthenticationError; any other error of
\* the vendor is raised as it is and is_authenticated is what it was when
\* request was called.
C2_OtherErrorLeavesFlagAsOnEntry ==
    [][ (last'.op = "request" /\ last'.vendor = 1) =>
          /\ last'.input = "http401" =>
                /\ ~is_authenticated'
                /\ last'.exc = "SessionExpiredError"
                /\ IsSubclass(last'.exc, "AuthenticationError")
          /\ (AnswerExc(last'.input) # NoExc /\ last'.input # "http401") =>
                /\ last'.exc = AnswerExc(last'.input)
                /\ is_authenticated' = is_authenticated ]_vars

\* C2 amended: a 401 marks the session invalid and raises
\* SessionExpiredError, a subclass of AuthenticationError; any other error of
\* the vendor is raised as it is and does not clear is_authenticated: the
\* session is authenticated after the call, also when request itself resumed
\* it from the saved tokens.
C2_OtherErrorKeepsSessionAuthenticated ==
    [][ (last'.op = "request" /\ last'.vendor = 1) =>
          /\ last'.input = "http401" =>
                /\ ~is_authenticated'
                /\ last'.exc = "SessionExpiredError"
                /\ IsSubclass(last'.exc, "AuthenticationError")
          /\ (AnswerExc(last'.input) # NoExc /\ last'.input # "http401") =>
                /\ last'.exc = AnswerExc(last'.input)
                /\ last'.cause = NoExc
                /\ is_authenticated'
                /\ (is_authenticated => UNCHANGED is_authenticated) ]_vars

C2_Witness ==
    /\ last.op = "request"
    /\ last.input = "http500"
    /\ last.exc = "GarthHTTPError"
    /\ last.loads = 1
    /\ is_authenticated

\* C3: ensure_authenticated called on an authenticated session loads no
\* tokens, changes nothing and returns; called on an unauthenticated session
\* it calls load_tokens once and raises AuthenticationError exactly when the
\* token file is missing or cannot be loaded, and the session is then still
\* unauthenticated.
C3_EnsureAuthenticated ==
    [][ last'.op = "ensure_authenticated" =>
          IF is_authenticated
          THEN /\ last'.loads = 0
               /\ last'.exc = NoExc
               /\ UNCHANGED <<is_authenticated, token_file, garth_account>>
          ELSE /\ last'.loads = 1
               /\ last'.exc \in {NoExc, "AuthenticationError"}
               /\ (last'.exc = "AuthenticationError") <=> (token_file \notin Accounts)
               /\ (last'.exc = "AuthenticationError") => ~is_authenticated'
               /\ (last'.exc = NoExc) => is_authenticated' ]_vars

C3_Witness ==
    /\ last.op = "ensure_authenticated"
    /\ last.exc = "AuthenticationError"
    /\ last.loads = 1
    /\ token_file = "corrupt"
    /\ ~is_authenticated

\* C4: login returns True with the session authenticated, or raises
\* AuthenticationError whose cause is the exception of the credential
\* exchange, whatever its class; a login that raised changed neither
\* is_authenticated nor the token file.
C4_LoginTrueOrAuthenticationError ==
    [][ last'.op = "login" =>
          \/ /\ last'.input = "ok"
             /\ last'.ret = "True"
             /\ last'.exc = NoExc
             /\ is_authenticated'
          \/ /\ last'.input # "ok"
             /\ last'.exc = "AuthenticationError"
             /\ last'.cause = last'.input
             /\ UNCHANGED <<is_authenticated, token_file>> ]_vars

C4_Witness ==
    /\ last.op = "login"
    /\ last.exc = "AuthenticationError"
    /\ last.cause = "ConnectionError"
    /\ is_authenticated
    /\ token_file = "absent"

\* C5: save_tokens never raises, and a login that saves its tokens returns
\* True with the session authenticated also when the write, or the creation
\* of the directory, failed.
C5_TokenWriteFailureSwallowed ==
    /\ last.op = "save_tokens" => (last.exc = NoExc /\ last.ret = "None")
    /\ (last.op = "login" /\ last.write \in {"mkdir_fails", "write_fails"}) =>
          /\ last.ret = "True"
          /\ last.exc = NoExc
          /\ is_authenticated

C5_Witness ==
    /\ last.op = "login"
    /\ last.write = "mkdir_fails"
    /\ last.ret = "True"
    /\ is_authenticated
    /\ token_file = "absent"

\* C6: load_tokens never raises; it returns False and leaves is_authenticated
\* as it was when the token file is missing or cannot be loaded, and when it
\* returns True the session is authenticated.
C6_LoadTokensNeverRaises ==
    [][ last'.op = "load_tokens" =>
          /\ last'.exc = NoExc
          /\ last'.ret \in {"True", "False"}
          /\ (token_file \notin Accounts) =>
                (last'.ret = "False" /\ UNCHANGED is_authenticated)
          /\ (last'.ret = "True") => is_authenticated' ]_vars

C6_Witness ==
    /\ last.op = "load_tokens"
    /\ last.ret = "False"
    /\ token_file = "corrupt"
    /\ is_authenticated

\* ------------------------------------------------------------------------
\* Properties of the extractors (checked under SpecExtractor and SpecClient)
\* ------------------------------------------------------------------------
\* the session is unauthenticated and its tokens cannot be resumed
Unresumable == ~is_authenticated /\ token_file \notin Accounts

\* C7 as stated: get_for_date returns None without raising when the fetch
\* fails with a transport error or the response cannot be parsed, and raises
\* the AuthenticationError when the session could not be authenticated.
C7_GetForDateLetsAuthErrorsThrough ==
    last.op = "get_for_date" =>
        /\ last.input \in {"http500", "malformed"} =>
              (last.ret = "None" /\ last.exc = NoExc)
        /\ last.input = "nocall" => IsSubclass(last.exc, "AuthenticationError")

\* C8 as stated: called on a session that is unauthenticated and cannot be
\* resumed, get_for_date_range, get_health_snapshot and export_data raise
\* AuthenticationError once they attempt a fetch.
C8_AuthErrorsReachTheCaller ==
    (pc = "idle" /\ Unresumable) =>
        /\ (last.op = "get_for_date_range" /\ DateLE(rng.start, rng.end)) =>
              IsSubclass(last.exc, "AuthenticationError")
        /\ last.op = "get_health_snapshot" =>
              IsSubclass(last.exc, "AuthenticationError")
        /\ (last.op = "export_data" /\ exp.include_activities) =>
              IsSubclass(last.exc, "AuthenticationError")

\* the date of an entity
DateOf(entity) == _parse_date(entity.date)

\* the number of days from start to end, both included
SpanDays(start, end) ==
    IF DayOfYear(end) >= DayOfYear(start) THEN DayOfYear(end) - DayOfYear(start) + 1 ELSE 0

\* C9: get_for_date_range calls get_for_date on start, start + 1 day, ... in
\* this order, once each, and when it returns it has called it on every date
\* up to end and on none after; the entities it returns are those of the
\* visited dates get_for_date returned an entity for, in ascending date order
\* and without duplicates.
C9_RangeVisitsEachDateOnceInOrder ==
    rng.caller = "user" =>
        LET n == Len(rng.calls)
            m == Len(rng.results)
        IN  /\ \A i \in 1 .. n :
                  /\ rng.calls[i].y = rng.start.y
                  /\ DayOfYear(rng.calls[i]) = DayOfYear(rng.start) + i - 1
            /\ n <= SpanDays(rng.start, rng.end)
            /\ pc = "idle" => n = SpanDays(rng.start, rng.end)
            /\ \A j \in 1 .. m : \A k \in 1 .. m :
                  j < k => DayOfYear(DateOf(rng.results[j])) < DayOfYear(DateOf(rng.results[k]))
            /\ {rng.results[j] : j \in 1 .. m}
                  = {Entity(rng.kind, isoformat(rng.calls[i])) :
                        i \in {i \in 1 .. n : rng.answers[i] = "data"}}

C9_Witness ==
    /\ pc = "idle"
    /\ last.op = "get_for_date_range"
    /\ rng.start = [y |-> 2024, m |-> 2, d |-> 28]
    /\ rng.calls = << [y |-> 2024, m |-> 2, d |-> 28], [y |-> 2024, m |-> 2, d |-> 29],
                      [y |-> 2024, m |-> 3, d |-> 1] >>
    /\ Len(rng.results) = 2
    /\ rng.results[2].date = <<2024, 3, 1>>

\* C10: get_for_date_range raises nothing, whatever the days whose fetch
\* failed or whose response was malformed, and returns exactly one entity for
\* every day of the range the vendor had data for, in the order of the days.
C10_FailedDaysDropNothingElse ==
    (pc = "idle" /\ last.op = "get_for_date_range") =>
        LET n == SpanDays(rng.start, rng.end)
            withData == {i \in 1 .. n : rng.answers[i] = "data"}
            Rank(i) == Cardinality({j \in withData : j <= i})
        IN  /\ last.exc = NoExc
            /\ last.ret = "list"
            /\ Len(rng.answers) = n
            /\ Len(rng.results) = Cardinality(withData)
            /\ \A i \in withData :
                  rng.results[Rank(i)] = Entity(rng.kind, isoformat(AddDays(rng.start, i - 1)))

C10_Witness ==
    /\ pc = "idle"
    /\ last.op = "get_for_date_range"
    /\ last.ret = "list"
    /\ rng.answers = <<"data", "malformed", "data">>
    /\ Len(rng.results) = 2
    /\ rng.results[2].date = isoformat(rng.end)

\* ------------------------------------------------------------------------
\* Properties of the facade client (checked under SpecClient)
\* ------------------------------------------------------------------------
\* the keys of the mapping get_health_snapshot returns
SnapshotKeys == {"date"} \cup DOMAIN snap.result

\* C11: get_health_snapshot never raises: it returns a mapping with the keys
\* date, daily_summary, sleep, heart_rate, stress, steps, hydration and
\* respiration; the fetch of a domain sets the entry of that domain only, to
\* the entity when the vendor had data for it and to None otherwise (no data,
\* a failed fetch, a response that cannot be parsed), whatever happened to the
\* domains fetched before it.
C11_SnapshotDomainsIndependent ==
    /\ []( (pc = "idle" /\ last.op = "get_health_snapshot") =>
              /\ last.exc = NoExc
              /\ last.ret = "dict"
              /\ SnapshotKeys = {"date", "daily_summary", "sleep", "heart_rate",
                                 "stress", "steps", "hydration", "respiration"} )
    /\ [][ (pc = "snapshot" /\ pc' = "snapshot") =>
             /\ snap'.exc = NoExc
             /\ snap'.i = snap.i + 1
             /\ \A d \in DomainSet \ {Domains[snap.i]} : snap'.result[d] = snap.result[d]
             /\ snap'.result[Domains[snap.i]] =
                   IF snap'.answer = "data" THEN "entity" ELSE "None" ]_vars

\* the fetch of hydration has just failed with a transport error: its entry
\* is None, the entries of the domains fetched before it are populated, and
\* the call goes on to respiration
C11_Witness ==
    /\ pc = "snapshot"
    /\ snap.exc = NoExc
    /\ Domains[snap.i] = "respiration"
    /\ snap.answer = "http500"
    /\ snap.result = [d \in DomainSet |->
                        IF d \in {"hydration", "respiration"} THEN "None" ELSE "entity"]

\* the keys of the mapping export_data returns
ExportKeys ==
    {"period"}
        \cup (IF exp.activities # -1 THEN {"activities"} ELSE {})
        \cup (IF exp.sleep # Unset THEN {"sleep"} ELSE {})
        \cup (IF exp.daily_summaries # Unset THEN {"daily_summaries"} ELSE {})

\* C12: export_data never raises: it returns a mapping with the key period
\* and the key activities, sleep, daily_summaries exactly when its flag is
\* true; a block of the export changes the value of its own key only; the
\* activities are an empty list when their request failed or had no data,
\* and the sleep and daily lists are what get_for_date_range returned, empty
\* when no day had data.
C12_ExportDomainsIndependent ==
    /\ []( (pc = "idle" /\ last.op = "export_data") =>
              /\ last.exc = NoExc
              /\ last.ret = "dict"
              /\ ExportKeys = {"period"}
                    \cup (IF exp.include_activities THEN {"activities"} ELSE {})
                    \cup (IF exp.include_sleep THEN {"sleep"} ELSE {})
                    \cup (IF exp.include_daily THEN {"daily_summaries"} ELSE {}) )
    /\ [][ (pc # "idle" /\ pc' # "idle" /\ last.op = "export_data") =>
             /\ exp'.activities # exp.activities =>
                   /\ pc = "export" /\ exp.stage = "activities"
                   /\ exp'.activities = IF exp'.answer = "data" THEN 1 ELSE 0
                   /\ exp'.sleep = exp.sleep
                   /\ exp'.daily_summaries = exp.daily_summaries
             /\ exp'.sleep # exp.sleep =>
                   /\ pc = "range" /\ exp.stage = "sleep"
                   /\ exp'.sleep = rng.results
                   /\ exp'.activities = exp.activities
                   /\ exp'.daily_summaries = exp.daily_summaries
             /\ exp'.daily_summaries # exp.daily_summaries =>
                   /\ pc = "range" /\ exp.stage = "daily"
                   /\ exp'.daily_summaries = rng.results
                   /\ exp'.activities = exp.activities
                   /\ exp'.sleep = exp.sleep ]_vars

\* the request for the activities failed and no day had sleep data, while
\* the daily summaries were exported
C12_Witness ==
    /\ pc = "idle"
    /\ last.op = "export_data"
    /\ last.ret = "dict"
    /\ exp.answer = "http500"
    /\ exp.activities = 0
    /\ exp.sleep = <<>>
    /\ Len(exp.daily_summaries) = 2

\* ------------------------------------------------------------------------
\* Properties of the weekly health report (checked under SpecReport)
\* ------------------------------------------------------------------------
\* the window of the report is the seven days that end today
ReportWindowIsTrailingWeek ==
    /\ rep.start.y = rep.today.y
    /\ DayOfYear(rep.today) - DayOfYear(rep.start) = 6
    /\ SpanDays(rep.start, rep.today) = 7

StatsDone == fn.op \in StatsHelpers /\ fn.state = "returned"

\* C14 as stated: no helper raises or divides by zero; given no entity, it
\* returns a dict with days_with_data = 0; given entities, days_with_data is
\* their number.
C14_EveryHelperCountsDaysWithData ==
    StatsDone =>
        /\ fn.out.exc = NoExc
        /\ fn.out.key = "days_with_data"
        /\ fn.out.count = Len(fn.input)

\* C14 amended: no helper raises or divides by zero; get_sleep_stats,
\* get_steps_stats, get_stress_stats and get_heart_rate_stats count the
\* entities get_for_date_range returned under days_with_data, and
\* get_weight_stats counts the weights get_weight_range returned under
\* measurements; the count is 0 given no entity, and then no mean is a
\* fraction with divisor 0.
C14_HelpersCountEntities ==
    StatsDone =>
        /\ fn.out.exc = NoExc
        /\ fn.out.key = IF fn.op = "get_weight_stats" THEN "measurements"
                        ELSE "days_with_data"
        /\ fn.out.count = Len(fn.input)
        /\ fn.out.mean # None => fn.out.mean[2] # 0
        /\ fn.out.opt_mean # None => fn.out.opt_mean[2] # 0
        /\ fn.input = <<>> => (fn.out.count = 0 /\ fn.out.opt_mean = None)

C14_Witness ==
    /\ StatsDone
    /\ fn.op = "get_sleep_stats"
    /\ fn.input = <<>>
    /\ fn.out.key = "days_with_data"
    /\ fn.out.count = 0

\* ------------------------------------------------------------------------
\* Properties of the calendar summaries (checked under SpecSummary)
\* ------------------------------------------------------------------------
\* C15 as stated: get_weekly_summary, with or without week_start, and
\* get_monthly_summary return a summary mapping of their calendar window
\* rather than failing.
C15_CalendarSummariesReturn ==
    last.op \in {"get_weekly_summary", "get_monthly_summary"} =>
        /\ last.exc = NoExc
        /\ last.ret = "dict"

\* ------------------------------------------------------------------------
\* Properties of the response normalizers
\* ------------------------------------------------------------------------
\* the sample loop has run on the raw array
SamplesDone == fn.op = "StressData.from_garmin_response" /\ fn.state = "returned"

\* every element of the raw array is a [timestamp, value] pair or an object
PairsAndObjects(raw) ==
    \A i \in 1..Len(raw) : raw[i].shape = "dict" \/ raw[i].len = 2

\* C16 as stated: every element of a raw stressValuesArray that is a
\* [timestamp, value] pair or an object yields exactly one StressSample, in
\* input order and none dropped; a pair with a null value yields stress_level
\* -1 with is_valid false, a pair with a value v >= 0 yields stress_level v
\* with is_valid true.
C16_EveryElementYieldsOneSample ==
    (SamplesDone /\ PairsAndObjects(fn.input)) =>
        /\ fn.out.exc = NoExc
        /\ Len(fn.out.made) = Len(fn.input)
        /\ \A i \in 1..Len(fn.input) :
             fn.input[i].shape = "list" =>
                /\ fn.input[i].value.t = "null" =>
                     (fn.out.made[i].stress_level = -1 /\ ~is_valid(fn.out.made[i]))
                /\ (fn.input[i].value.t = "int" /\ fn.input[i].value.v >= 0) =>
                     (fn.out.made[i].stress_level = fn.input[i].value.v
                      /\ is_valid(fn.out.made[i]))

\* the entity was built from the response
CasingDone == fn.op = "get_val" /\ fn.state = "returned"

\* the value the entity holds for a value read from the response
Held(f, j) ==
    IF j.t = "null" THEN JNull
    ELSE IF f.conv = "timestamp" THEN JDatetime(j.v)
    ELSE j

ScoresDone == fn.op = "SleepData.from_garmin_response" /\ fn.state = "returned"

\* C18 as stated: when the response holds a nested map {metric: {value: n}}
\* under sleepScores, each of the overall, quality, recovery, rem, light and
\* deep scores is the inner value n; when it holds no nested map, each score
\* is the flat field of the response, so flat score fields alone give those
\* scores and not None.
C18_NestedElseFlatScores ==
    ScoresDone =>
        /\ (fn.shape = "dict" /\ fn.entry.t = "dict") =>
               fn.out = Value(JInt(fn.entry.v))
        /\ (fn.shape # "dict" /\ fn.flat # JMissing) =>
               fn.out = Value(fn.flat)

\* the entity was built from the response
FieldsDone == fn.op = "from_garmin_response" /\ fn.state = "returned"

\* a key of the response that is missing or holds null
Absent(j) == j = JMissing \/ j = JNull

\* C19 as stated: for every entity kind and every field its normalizer reads,
\* a response in which the field is absent (its key missing, or present with
\* null) still constructs the entity without raising.
C19_EveryFieldIsOptional ==
    (FieldsDone /\ Absent(fn.camel) /\ Absent(fn.snake)) => fn.out.exc = NoExc

\* the cumulative counters: step counts and calories
IsCounter(f) ==
    f.name \in {"total_steps", "calories", "active_calories", "total_kilocalories",
                "active_kilocalories", "bmr_kilocalories"}

\* the declared types of the fields that hold a number
NumberTypes == {"int", "int?", "float", "float?"}

\* C20 as stated: a numeric field whose key the server omitted holds None in
\* the entity, never a number that could pass for a measurement, except the
\* cumulative counters (steps, calories), which hold 0.
C20_OmittedFieldIsNone ==
    (/\ FieldsDone
     /\ fn.camel = JMissing /\ fn.snake = JMissing
     /\ fn.field.type \in NumberTypes) =>
        /\ fn.out.exc = NoExc
        /\ IsCounter(fn.field) => fn.out.value = JInt(0)
        /\ ~IsCounter(fn.field) => fn.out.value = JNull

\* the entity was dumped and built again
RoundTripDone == fn.op = "from_garmin_response" /\ fn.state = "reparsed"

\* C21 as stated: for every entity e of every kind,
\* from_garmin_response(e.to_dict()) is built without raising and holds in
\* every field the value e holds.
C21_RoundTripKeepsFields ==
    RoundTripDone => fn.back = fn.out

\* ------------------------------------------------------------------------
\* Properties of the goal percentages (checked under SpecGoal)
\* ------------------------------------------------------------------------
\* a goal-percentage accessor has returned
GoalDone ==
    /\ fn.op \in {"StepsData.goal_percentage", "HydrationData.goal_percentage",
                  "DailySummary.step_goal_percentage"}
    /\ fn.state = "returned"

CreateDone == last.op = "create_auth"

SavedDone == last.op = "from_saved_tokens"

ConfigDone == fn.op = "load_config" /\ fn.state = "returned" /\ fn.out.exc = NoExc

\* the value a setting has in the file, or else its default
FileOrDefault(key) ==
    IF fn.file.state = "valid" /\ fn.file.data[key] # Missing
    THEN fn.file.data[key] ELSE GarmerConfig[key]

\* C30: load_config gives the environment precedence over the file and the
\* file over the defaults: for every variable of the GARMER_* mapping of
\* from_env (GARMER_CACHE_TTL too), when the variable is set the returned
\* configuration holds its value, and when it is not set the file's value,
\* or else the default, is kept
C30_EnvOverFileOverDefaults ==
    ConfigDone =>
        \A env_var \in DOMAIN env_mappings :
            fn.out.value[env_mappings[env_var]] =
                IF fn.env[env_var] # NoValue
                THEN ConvertEnv(env_mappings[env_var], fn.env[env_var])
                ELSE FileOrDefault(env_mappings[env_var])


\* ------------------------------------------------------------------------
\* Properties of the command line (checked under SpecCli)
\* ------------------------------------------------------------------------
DataDone == last.op \in DataCommands

\* C23: every data command (summary, sleep, activities, activity, snapshot,
\* export) returns 0 on success, and 1 when the user is not logged in or no
\* data is available for the date asked; no failure path returns 0
C23_ExitCodes ==
    DataDone => (last.code = 0 <=> is_authenticated /\ last.found)

\* C29: login and logout act on the same token file under every
\* configuration: once a login has succeeded and a logout has then run, the
\* saved tokens are gone, and a following status or data command returns 1
C29_LogoutRemovesLoginTokens ==
    fn.op = "cli" /\ fn.state = "logout" =>
        /\ token_file = "absent"
        /\ last.op \in DataCommands \cup {"status"} => last.code = 1


\* ------------------------------------------------------------------------
\* Properties of the session after a rejection (checked under SpecExtractor
\* and Spec)
\* ------------------------------------------------------------------------
FetchDone == last.op = "get_for_date" /\ last.vendor > 0

\* C25: when the vendor answers an extractor fetch with a 401 the session is
\* marked unauthenticated, as it is by GarminAuth.request()
C25_FetchDetectsExpiry ==
    FetchDone /\ last.input = "http401" => ~is_authenticated


Expired == last.op = "request" /\ last.exc = "SessionExpiredError"

\* C26: once request() has raised SessionExpiredError the session stays
\* unauthenticated until a login succeeds: the request() that follows fails
\* with AuthenticationError without contacting the vendor, and the session
\* does not become authenticated again by reading the token file that was
\* rejected
C26_ExpiredUntilLogin ==
    [][Expired /\ last'.op = "request" =>
          /\ last'.exc = "AuthenticationError"
          /\ last'.vendor = 0
          /\ ~is_authenticated']_vars


\* ------------------------------------------------------------------------
\* Properties of the session after a logout (checked under SpecSession)
\* ------------------------------------------------------------------------
LoggedOut == ~is_authenticated /\ token_file = "absent"

SessionCalls == {"ensure_authenticated", "request", "_make_request"}

SleepFetchDone == FetchDone /\ rng.kind = "sleep"

\* C28: the username in the path of a sleep fetch is that of the account
\* authenticated now, also after a logout and a login as another account;
\* never one cached from an earlier session
C28_UsernameOfCurrentAccount ==
    SleepFetchDone => sleep_username = garth_account

====
